---- MODULE Spec2Model ----
(***************************************************************************)
(* A model of the dbt-api-service-controller deployment routes             *)
(* (src/app/api/routes/deployments.py) and of the Airflow client they use  *)
(* (src/app/services/airflow_service.py).                                  *)
(*                                                                         *)
(* Strings whose characters matter (project names, branches, resource      *)
(* names, volume names) are sequences of one-character strings, so that    *)
(* sanitising, truncating, prefixing and prefix tests are computed as the  *)
(* code computes them.                                                     *)
(***************************************************************************)
EXTENDS Integers, Sequences, FiniteSets, TLC

(***************************************************************************)
(* Characters                                                              *)
(***************************************************************************)
LowerLetters ==
  <<"a","b","c","d","e","f","g","h","i","j","k","l","m",
    "n","o","p","q","r","s","t","u","v","w","x","y","z">>

UpperLetters ==
  <<"A","B","C","D","E","F","G","H","I","J","K","L","M",
    "N","O","P","Q","R","S","T","U","V","W","X","Y","Z">>

Digits ==
  <<"0","1","2","3","4","5","6","7","8","9">>

HexDigits ==
  <<"0","1","2","3","4","5","6","7","8","9","a","b","c","d","e","f">>

Punctuation ==
  <<"-","_","!"," ",".","/">>

\* the characters of the model, in a fixed order (the order gives Ord)
Ascii ==
  LowerLetters \o UpperLetters \o Digits \o Punctuation

Range(s) ==
  {s[i] : i \in 1..Len(s)}

Ord(c) ==
  CHOOSE i \in 1..Len(Ascii) : Ascii[i] = c

\* str.lower() on one character
LowerChar(c) ==
  IF c \in Range(UpperLetters)
    THEN LowerLetters[CHOOSE i \in 1..26 : UpperLetters[i] = c]
    ELSE c

\* str.lower()
Lower(s) ==
  [i \in 1..Len(s) |-> LowerChar(s[i])]

\* re.sub(r'[^<allowed>]', rep, s): every character outside allowed becomes rep
ReplaceOutside(s, allowed, rep) ==
  [i \in 1..Len(s) |-> IF s[i] \in allowed THEN s[i] ELSE rep]

\* re.sub(r'c+', 'c', s): every run of c becomes a single c (a c that follows
\* a c is dropped)
CollapseRuns(s, c) ==
  LET marked == [i \in 1..Len(s) |->
                   [ch |-> s[i], drop |-> i > 1 /\ s[i] = c /\ s[i - 1] = c]]
      Kept(m) == ~m.drop
      kept   == SelectSeq(marked, Kept)
  IN  [i \in 1..Len(kept) |-> kept[i].ch]

\* str.strip(c): what lies between the first and the last character other
\* than c
Strip(s, c) ==
  LET others == {i \in 1..Len(s) : s[i] # c}
  IN  IF others = {} THEN <<>>
      ELSE SubSeq(s, CHOOSE i \in others : \A j \in others : i <= j,
                     CHOOSE i \in others : \A j \in others : i >= j)

\* the Python slice s[:n]; a negative n counts from the end
SliceTo(s, n) ==
  IF n >= 0
    THEN SubSeq(s, 1, IF n < Len(s) THEN n ELSE Len(s))
    ELSE SubSeq(s, 1, IF Len(s) + n > 0 THEN Len(s) + n ELSE 0)

\* str.startswith
StartsWith(s, p) ==
  Len(p) <= Len(s) /\ SubSeq(s, 1, Len(p)) = p

K8sChars ==
  Range(LowerLetters) \cup Range(Digits) \cup {"-"}

ConnIdChars ==
  Range(LowerLetters) \cup Range(Digits) \cup {"_"}

(***************************************************************************)
(* Identifier derivation (deployments.py, lines 36-103)                    *)
(***************************************************************************)

\* Python's None, for an optional string
None ==
  <<"None">>

\* truth value of an optional string: None and '' are false
Truthy(s) ==
  s # None /\ s # <<>>

Str_dbt ==
  <<"d","b","t">>

Str_dbt_server ==
  <<"d","b","t","-","s","e","r","v","e","r">>

\* four hex digits of n, 0 <= n < 65536
Hex4(n) ==
  <<HexDigits[((n \div 4096) % 16) + 1], HexDigits[((n \div 256) % 16) + 1],
    HexDigits[((n \div 16) % 16) + 1], HexDigits[(n % 16) + 1]>>

\* a 16-bit content hash of s[lo..hi], position-sensitive, by halves
RECURSIVE Mix(_, _, _, _, _)
Mix(s, lo, hi, mul, add) ==
  IF lo > hi THEN add
  ELSE IF lo = hi THEN ((Ord(s[lo]) * mul) + add) % 65536
  ELSE LET mid == (lo + hi) \div 2
       IN  ((Mix(s, lo, mid, mul, add) * mul)
            + (Mix(s, mid + 1, hi, mul, add) * 17) + (hi - lo)) % 65536

\* hashlib.md5(s.encode()).hexdigest()[:8]: the library digest is replaced by
\* a content hash with the same signature (a function of the whole string,
\* 8 lowercase hex characters)
Md5Hex8(s) ==
  Hex4(Mix(s, 1, Len(s), 33, 5381)) \o Hex4(Mix(s, 1, Len(s), 31, 40503))

\* sanitize_k8s_name without the collapse of repeated hyphens
sanitize_k8s_name_NoCollapse(value) ==
  Strip(ReplaceOutside(Lower(value), K8sChars, "-"), "-")

\* sanitize_k8s_name without the final strip of hyphens
sanitize_k8s_name_NoStrip(value) ==
  CollapseRuns(ReplaceOutside(Lower(value), K8sChars, "-"), "-")

sanitize_k8s_name(value) ==
  Strip(CollapseRuns(ReplaceOutside(Lower(value), K8sChars, "-"), "-"), "-")

sanitize_airflow_conn_id(value) ==
  SliceTo(Strip(CollapseRuns(ReplaceOutside(Lower(value), ConnIdChars, "_"),
                             "_"), "_"), 250)

\* max_base_length with only the "dbt-" prefix and one separator reserved
max_base_length_NoHash ==
  63 - 5

max_base_length ==
  63 - 14

k8s_resource_name(project_name, git_branch) ==
  LET base      == sanitize_k8s_name(project_name)
      full_name == IF Truthy(git_branch) THEN base \o <<"-">> \o git_branch
                                         ELSE base
      name_hash == Md5Hex8(full_name)
      cut       == IF Len(base) > max_base_length
                     THEN SliceTo(base, max_base_length) ELSE base
  IN  Str_dbt \o <<"-">> \o cut \o <<"-">> \o name_hash

\* airflow_connection_id with a derivation path of its own: the name passed
\* through the connection-id sanitiser
airflow_connection_id_Sanitized(project_name, git_branch) ==
  sanitize_airflow_conn_id(k8s_resource_name(project_name, git_branch))

airflow_connection_id(project_name, git_branch) ==
  k8s_resource_name(project_name, git_branch)

\* get_volume_name with no character reserved for the separator
get_volume_name_NoSeparator(prefix, k8s_name) ==
  LET max_k8s_name_length == 63 - Len(prefix)
      cut == IF Len(k8s_name) > max_k8s_name_length
               THEN SliceTo(k8s_name, max_k8s_name_length) ELSE k8s_name
  IN  prefix \o <<"-">> \o cut

get_volume_name(prefix, k8s_name) ==
  LET max_k8s_name_length == 63 - Len(prefix) - 1
      cut == IF Len(k8s_name) > max_k8s_name_length
               THEN SliceTo(k8s_name, max_k8s_name_length) ELSE k8s_name
  IN  prefix \o <<"-">> \o cut

(***************************************************************************)
(* The deployment workflow: requests, handlers and the external systems    *)
(***************************************************************************)

\* The inbound request bodies of the model: two tenants.  Fields that no
\* modelled step reads are left out.
BodyA ==
  [project_name |-> <<"a">>, git_branch |-> <<"m">>,
   namespace |-> "dbt-server", customer |-> "acme", domain |-> "fast.bi",
   https_enabled |-> FALSE, basic_auth_user |-> "userA",
   basic_auth_password |-> "passwordA", dbt_repo_name |-> <<>>]

BodyB ==
  [project_name |-> <<"B","!">>, git_branch |-> <<"m">>,
   namespace |-> "tenant", customer |-> "acme", domain |-> "fast.bi",
   https_enabled |-> TRUE, basic_auth_user |-> "userB",
   basic_auth_password |-> "passwordB", dbt_repo_name |-> <<"r">>]

Bodies ==
  {BodyA, BodyB}

\* the names a DELETE request may carry
DeleteIds ==
  {k8s_resource_name(b.project_name, b.git_branch) : b \in Bodies}

Handlers ==
  {"h1", "h2"}

\* the namespace delete_deployment works in
DeleteNamespace ==
  "dbt-server"

NoDoc ==
  [k8s_name |-> <<>>, namespace |-> "-", login |-> "-", password |-> "-"]

NoHost ==
  [scheme |-> "-", label |-> <<>>, zone |-> <<>>, path |-> "-"]

NoSent ==
  [kind |-> "-", id |-> <<>>, host |-> NoHost, login |-> "-", password |-> "-"]

NoData ==
  [project_name |-> <<>>, git_branch |-> <<>>, namespace |-> "-",
   customer |-> "-", domain |-> "-", https_enabled |-> FALSE,
   basic_auth_user |-> "-", basic_auth_password |-> "-",
   dbt_repo_name |-> <<>>]

NoLocal ==
  [k8s_name |-> <<>>, release_name |-> <<>>, airflow_id |-> <<>>,
   host |-> NoHost, conn_status |-> "-", conn_error |-> "-",
   applied |-> NoDoc, sent |-> NoSent,
   pvc_names |-> <<>>, pvc_rest |-> <<>>, deleted_pvcs |-> <<>>,
   values_file |-> <<>>, body |-> NoData]

NoResult ==
  [code |-> 0, status |-> "-", message |-> "-", error |-> "-",
   release_name |-> <<>>, helm_status |-> "-", conn_id |-> <<>>,
   conn_host |-> NoHost, conn_status |-> "-", conn_error |-> "-",
   pvc_deleted |-> <<>>, deployments |-> {}, checks |-> "-"]

NoDone ==
  [op |-> "-", data |-> NoData, calls |-> <<>>, result |-> NoResult,
   body |-> NoData, applied |-> NoDoc, sent |-> NoSent]

VARIABLES
  pc,           \* pc[h]: where handler h stands in its request
  op,           \* op[h]: the route handler h is serving
  json_data,    \* json_data[h]: the validated request body
  local,        \* local[h]: the local variables of the handler
  calls,        \* calls[h]: the external commands and HTTP calls issued so far
  result,       \* result[h]: the response of the handler, once it returned
  files,        \* the files written beside the chart templates
  releases,     \* the release tool's store: <<name, namespace>> -> values
  connections,  \* the connection registry: connection id -> record
  pvcs,         \* the volume claims of namespace dbt-server
  lastDone,     \* the most recently completed request
  before,       \* before[h]: lastDone when h's request started
  fn            \* the inputs and outputs of the identifier functions

vars ==
  <<pc, op, json_data, local, calls, result, files, releases, connections,
    pvcs, lastDone, before, fn>>

handlerVars ==
  <<pc, op, json_data, local, calls, result, lastDone, before>>

worldVars ==
  <<files, releases, connections, pvcs>>

\* f with x mapped to v (x is added to the domain when new)
Put(f, x, v) ==
  [y \in DOMAIN f \cup {x} |-> IF y = x THEN v ELSE f[y]]

\* f without x
Drop(f, x) ==
  [y \in DOMAIN f \ {x} |-> f[y]]

\* charts/values.yaml: values_path = chart_path / 'values.yaml'
values_path(data) ==
  <<"charts", "values.yaml">>

\* k8s_resource_name on the (project name, branch) pairs of the request
\* bodies, evaluated once
ResourceNames ==
  [k \in {<<b.project_name, b.git_branch>> : b \in Bodies}
     |-> k8s_resource_name(k[1], k[2])]

\* the rendered values document, by the context entries later steps depend
\* on; k8s_name is k8s_resource_name(project_name, git_branch) (lines 124-127)
RenderedDoc(data) ==
  [k8s_name  |-> ResourceNames[<<data.project_name, data.git_branch>>],
   namespace |-> data.namespace,
   login     |-> data.basic_auth_user,
   password  |-> data.basic_auth_password]

\* DeployHost with the cluster-local pattern whatever the HTTPS flag
DeployHost_ClusterLocal(data, k8s_name) ==
  [scheme |-> "http",
   label  |-> Str_dbt_server \o <<"-">> \o k8s_name,
   zone   |-> <<data.namespace, "svc", "cluster", "local">>,
   path   |-> "/invocations"]

\* the host of the connection record, deploy_dbt_server lines 302-305:
\* <scheme>://<label>.<zone, joined by dots><path>
DeployHost(data, k8s_name) ==
  IF data.https_enabled
    THEN [scheme |-> "https",
          label  |-> Str_dbt_server \o <<"-">> \o k8s_name,
          zone   |-> <<data.customer, data.domain>>,
          path   |-> "/invocations"]
    ELSE [scheme |-> "http",
          label  |-> Str_dbt_server \o <<"-">> \o k8s_name,
          zone   |-> <<data.namespace, "svc", "cluster", "local">>,
          path   |-> "/invocations"]

ErrorResult(code, message, error) ==
  [NoResult EXCEPT !.code = code, !.status = "error", !.message = message,
                   !.error = error]

\* the handler returns r: the response is kept in result[h]
Return(h, r) ==
  /\ pc' = [pc EXCEPT ![h] = "done"]
  /\ result' = [result EXCEPT ![h] = r]

Goto(h, label) ==
  /\ pc' = [pc EXCEPT ![h] = label]
  /\ UNCHANGED result

\* the handler issues the command or HTTP call cmd, which ends with out
Call(h, cmd, out) ==
  calls' = [calls EXCEPT ![h] = Append(@, [cmd |-> cmd, out |-> out])]

\* the handler issues the command cmd on the object arg, which ends with out
CallOn(h, cmd, arg, out) ==
  calls' = [calls EXCEPT
              ![h] = Append(@, [cmd |-> cmd, out |-> out, arg |-> arg])]

(***************************************************************************)
(* POST /api/v1/deployments: deploy_dbt_server (lines 241-373)             *)
(***************************************************************************)

\* random.choices(...) of generate_hashed_credentials (lines 389 and 393):
\* two of the strings each draw can give
GeneratedUsers ==
  {"dbt_server_agent_r1", "dbt_server_agent_r2"}

GeneratedPasswords ==
  {"random1", "random2"}

\* bp.input(DeploymentCreateSchema): the validated bodies a request body can
\* load to.  generate_hashed_credentials (lines 387-393) fills in a user and
\* a password drawn at random when the body has none ('' stands for a
\* missing or empty attribute)
ValidatedData(body) ==
  {[body EXCEPT !.basic_auth_user = u, !.basic_auth_password = p] :
     u \in IF body.basic_auth_user = "" THEN GeneratedUsers
                                        ELSE {body.basic_auth_user},
     p \in IF body.basic_auth_password = "" THEN GeneratedPasswords
                                            ELSE {body.basic_auth_password}}

\* lines 249-256: the three names of the workflow
DeployNames(data) ==
  LET k8s_name == k8s_resource_name(data.project_name, data.git_branch)
  IN  [k8s_name |-> k8s_name, release_name |-> k8s_name,
       airflow_id |-> k8s_name]

\* the request enters a handler; the names are derived first
Start(h, route, data, loc) ==
  /\ pc[h] = "idle"
  /\ op' = [op EXCEPT ![h] = route]
  /\ json_data' = [json_data EXCEPT ![h] = data]
  /\ local' = [local EXCEPT ![h] = loc]
  /\ calls' = [calls EXCEPT ![h] = <<>>]
  /\ UNCHANGED <<result, worldVars, fn>>

StartDeploy(h, body) ==
  \E data \in ValidatedData(body) :
    /\ Start(h, "deploy", data,
             [NoLocal EXCEPT !.k8s_name = DeployNames(data).k8s_name,
                             !.release_name = DeployNames(data).release_name,
                             !.airflow_id = DeployNames(data).airflow_id,
                             !.body = body])
    /\ pc' = [pc EXCEPT ![h] = "render"]

\* values_file = render_values_file(...) (line 266): the document is written
\* and its path returned, or the renderer raises
DeployRender(h) ==
  /\ pc[h] = "render"
  /\ \/ /\ files' = Put(files, values_path(json_data[h]),
                        RenderedDoc(json_data[h]))
        /\ local' = [local EXCEPT
                       ![h].values_file = values_path(json_data[h])]
        /\ Call(h, "render", "ok")
        /\ Goto(h, "repo_add")
     \/ /\ Call(h, "render", "failed")
        /\ Return(h, ErrorResult(500, "exception", "render"))
        /\ UNCHANGED <<files, local>>
  /\ UNCHANGED <<op, json_data, releases, connections, pvcs, fn>>

\* DeployRepo running a failed command a second time before it gives up
DeployRepo_Retry(h, at, cmd, next) ==
  /\ pc[h] = at
  /\ \/ /\ Call(h, cmd, "ok")
        /\ Goto(h, next)
     \/ /\ Call(h, cmd, "failed")
        /\ IF \E i \in 1..Len(calls[h]) : calls[h][i].cmd = cmd
             THEN Return(h, ErrorResult(500,
                            "Failed to setup Helm repository", cmd))
             ELSE Goto(h, at)
  /\ UNCHANGED <<op, json_data, local, worldVars, fn>>

\* helm repo add / helm repo update (lines 272-281)
DeployRepo(h, at, cmd, next) ==
  /\ pc[h] = at
  /\ \/ /\ Call(h, cmd, "ok")
        /\ Goto(h, next)
     \/ /\ Call(h, cmd, "failed")
        /\ \/ Return(h, ErrorResult(500, "Failed to setup Helm repository",
                                    cmd))
           \/ Return(h, ErrorResult(500, "exception", cmd))
  /\ UNCHANGED <<op, json_data, local, worldVars, fn>>

DeployRepoAdd(h) ==
  DeployRepo(h, "repo_add", "helm repo add", "repo_update")

DeployRepoUpdate(h) ==
  DeployRepo(h, "repo_update", "helm repo update", "upgrade")

\* DeployUpgrade without the return on a non-zero exit code
DeployUpgrade_NoAbort(h) ==
  /\ pc[h] = "upgrade"
  /\ \/ LET doc == files[local[h].values_file]
        IN  /\ Call(h, "helm upgrade", "ok")
            /\ releases' = Put(releases, <<local[h].release_name,
                                           json_data[h].namespace>>, doc)
            /\ local' = [local EXCEPT
                  ![h].applied = doc,
                  ![h].host = DeployHost(json_data[h], local[h].k8s_name),
                  ![h].conn_status = "created"]
     \/ /\ Call(h, "helm upgrade", "failed")
        /\ local' = [local EXCEPT
              ![h].host = DeployHost(json_data[h], local[h].k8s_name),
              ![h].conn_status = "created"]
        /\ UNCHANGED releases
  /\ Goto(h, "conn_get")
  /\ UNCHANGED <<op, json_data, files, connections, pvcs, fn>>

\* helm upgrade -i <release_name> ... --values <values_file> (lines 284-298);
\* the tool reads the values file when the command runs
DeployUpgrade(h) ==
  /\ pc[h] = "upgrade"
  /\ \/ LET doc == files[local[h].values_file]
        IN  /\ Call(h, "helm upgrade", "ok")
            /\ releases' = Put(releases, <<local[h].release_name,
                                           json_data[h].namespace>>, doc)
            /\ local' = [local EXCEPT
                  ![h].applied = doc,
                  ![h].host = DeployHost(json_data[h], local[h].k8s_name),
                  ![h].conn_status = "created"]
            /\ Goto(h, "conn_get")
     \/ /\ Call(h, "helm upgrade", "failed")
        /\ Return(h, ErrorResult(500, "Failed to deploy application",
                                 "helm upgrade"))
        /\ UNCHANGED <<releases, local>>
  /\ UNCHANGED <<op, json_data, files, connections, pvcs, fn>>

\* the connection record the handler sends
DeployRecord(h) ==
  [host |-> local[h].host, login |-> json_data[h].basic_auth_user,
   password |-> json_data[h].basic_auth_password]

Sent(h, kind) ==
  [kind |-> kind, id |-> local[h].airflow_id, host |-> local[h].host,
   login |-> json_data[h].basic_auth_user,
   password |-> json_data[h].basic_auth_password]

\* what the handler does when a connection call raises anything but a 404
\* (lines 340-348 and 367-373): the status is set to 'error', the exception
\* is raised again and the outer handler turns it into the error response
DeployConnFailure(h, error) ==
  /\ local' = [local EXCEPT ![h].conn_status = "error",
                            ![h].conn_error = error]
  /\ Return(h, ErrorResult(500, "exception", error))

\* DeployConnGet with a 404 handled like any other error of the check
DeployConnGet_404Fatal(h) ==
  /\ pc[h] = "conn_get"
  /\ \/ /\ local[h].airflow_id \in DOMAIN connections
        /\ Call(h, "GET connection", "ok")
        /\ Goto(h, "conn_patch")
        /\ UNCHANGED local
     \/ /\ local[h].airflow_id \notin DOMAIN connections
        /\ Call(h, "GET connection", "404")
        /\ DeployConnFailure(h, "GET connection failed")
     \/ /\ Call(h, "GET connection", "failed")
        /\ DeployConnFailure(h, "GET connection failed")
  /\ UNCHANGED <<op, json_data, worldVars, fn>>

\* airflow_service.get_connection(airflow_id) (line 310)
DeployConnGet(h) ==
  /\ pc[h] = "conn_get"
  /\ \/ /\ local[h].airflow_id \in DOMAIN connections
        /\ Call(h, "GET connection", "ok")
        /\ Goto(h, "conn_patch")
        /\ UNCHANGED local
     \/ /\ local[h].airflow_id \notin DOMAIN connections
        /\ Call(h, "GET connection", "404")
        /\ Goto(h, "conn_post")
        /\ UNCHANGED local
     \/ /\ Call(h, "GET connection", "failed")
        /\ DeployConnFailure(h, "GET connection failed")
  /\ UNCHANGED <<op, json_data, worldVars, fn>>

\* DeployConnPatch going on to the create call after a successful update
DeployConnPatch_ThenPost(h) ==
  /\ pc[h] = "conn_patch"
  /\ \/ /\ local[h].airflow_id \in DOMAIN connections
        /\ Call(h, "PATCH connection", "ok")
        /\ connections' = Put(connections, local[h].airflow_id,
                              DeployRecord(h))
        /\ local' = [local EXCEPT ![h].conn_status = "updated",
                                  ![h].sent = Sent(h, "PATCH")]
        /\ Goto(h, "conn_post")
     \/ /\ local[h].airflow_id \notin DOMAIN connections
        /\ Call(h, "PATCH connection", "404")
        /\ local' = [local EXCEPT ![h].sent = Sent(h, "PATCH")]
        /\ Goto(h, "conn_post")
        /\ UNCHANGED connections
     \/ /\ Call(h, "PATCH connection", "failed")
        /\ DeployConnFailure(h, "PATCH connection failed")
        /\ UNCHANGED connections
  /\ UNCHANGED <<op, json_data, files, releases, pvcs, fn>>

\* DeployConnPatch without the assignment of 'updated' (line 327)
DeployConnPatch_StatusKept(h) ==
  /\ pc[h] = "conn_patch"
  /\ \/ /\ local[h].airflow_id \in DOMAIN connections
        /\ Call(h, "PATCH connection", "ok")
        /\ connections' = Put(connections, local[h].airflow_id,
                              DeployRecord(h))
        /\ local' = [local EXCEPT ![h].sent = Sent(h, "PATCH")]
        /\ Goto(h, "status")
     \/ /\ local[h].airflow_id \notin DOMAIN connections
        /\ Call(h, "PATCH connection", "404")
        /\ local' = [local EXCEPT ![h].sent = Sent(h, "PATCH")]
        /\ Goto(h, "conn_post")
        /\ UNCHANGED connections
     \/ /\ Call(h, "PATCH connection", "failed")
        /\ DeployConnFailure(h, "PATCH connection failed")
        /\ UNCHANGED connections
  /\ UNCHANGED <<op, json_data, files, releases, pvcs, fn>>

\* airflow_service.update_connection (lines 312-327); a 404 answer is caught
\* by the same handler as a 404 of the existence check
DeployConnPatch(h) ==
  /\ pc[h] = "conn_patch"
  /\ \/ /\ local[h].airflow_id \in DOMAIN connections
        /\ Call(h, "PATCH connection", "ok")
        /\ connections' = Put(connections, local[h].airflow_id,
                              DeployRecord(h))
        /\ local' = [local EXCEPT ![h].conn_status = "updated",
                                  ![h].sent = Sent(h, "PATCH")]
        /\ Goto(h, "status")
     \/ /\ local[h].airflow_id \notin DOMAIN connections
        /\ Call(h, "PATCH connection", "404")
        /\ local' = [local EXCEPT ![h].sent = Sent(h, "PATCH")]
        /\ Goto(h, "conn_post")
        /\ UNCHANGED connections
     \/ /\ Call(h, "PATCH connection", "failed")
        /\ DeployConnFailure(h, "PATCH connection failed")
        /\ UNCHANGED connections
  /\ UNCHANGED <<op, json_data, files, releases, pvcs, fn>>

\* DeployConnPost uninstalling the release when the create fails
DeployConnPost_Rollback(h) ==
  /\ pc[h] = "conn_post"
  /\ \/ /\ local[h].airflow_id \notin DOMAIN connections
        /\ Call(h, "POST connection", "ok")
        /\ connections' = Put(connections, local[h].airflow_id,
                              DeployRecord(h))
        /\ local' = [local EXCEPT ![h].conn_status = "created",
                                  ![h].sent = Sent(h, "POST")]
        /\ Goto(h, "status")
        /\ UNCHANGED releases
     \/ /\ calls' = [calls EXCEPT ![h] = @ \o
                       <<[cmd |-> "POST connection", out |-> "failed"],
                         [cmd |-> "helm uninstall", out |-> "ok"]>>]
        /\ releases' = Drop(releases, <<local[h].release_name,
                                        json_data[h].namespace>>)
        /\ DeployConnFailure(h, "POST connection failed")
        /\ UNCHANGED connections
  /\ UNCHANGED <<op, json_data, files, pvcs, fn>>

\* DeployConnPost against a registry that accepts a second record under an
\* identifier it already holds
DeployConnPost_Unguarded(h) ==
  /\ pc[h] = "conn_post"
  /\ \/ /\ Call(h, "POST connection", "ok")
        /\ connections' = Put(connections, local[h].airflow_id,
                              DeployRecord(h))
        /\ local' = [local EXCEPT ![h].conn_status = "created",
                                  ![h].sent = Sent(h, "POST")]
        /\ Goto(h, "status")
     \/ /\ Call(h, "POST connection", "failed")
        /\ DeployConnFailure(h, "POST connection failed")
        /\ UNCHANGED connections
  /\ UNCHANGED <<op, json_data, files, releases, pvcs, fn>>

\* airflow_service.create_dbt_connection (lines 331-339); the registry
\* refuses a second record under the same identifier
DeployConnPost(h) ==
  /\ pc[h] = "conn_post"
  /\ \/ /\ local[h].airflow_id \notin DOMAIN connections
        /\ Call(h, "POST connection", "ok")
        /\ connections' = Put(connections, local[h].airflow_id,
                              DeployRecord(h))
        /\ local' = [local EXCEPT ![h].conn_status = "created",
                                  ![h].sent = Sent(h, "POST")]
        /\ Goto(h, "status")
     \/ /\ Call(h, "POST connection", "failed")
        /\ DeployConnFailure(h, "POST connection failed")
        /\ UNCHANGED connections
  /\ UNCHANGED <<op, json_data, files, releases, pvcs, fn>>

\* get_helm_status (lines 216-239): None unless the release is listed and the
\* status command succeeds; each outcome with the commands it ran
HelmStatusOutcomes(release_name, namespace) ==
  {[status |-> "None",
    cmds |-> <<[cmd |-> "helm list", out |-> "failed"]>>]}
  \cup (IF <<release_name, namespace>> \in DOMAIN releases
          THEN {[status |-> "None",
                 cmds |-> <<[cmd |-> "helm list", out |-> "ok"],
                            [cmd |-> "helm status", out |-> "failed"]>>],
                [status |-> "deployed",
                 cmds |-> <<[cmd |-> "helm list", out |-> "ok"],
                            [cmd |-> "helm status", out |-> "ok"]>>]}
          ELSE {[status |-> "None",
                 cmds |-> <<[cmd |-> "helm list", out |-> "absent"]>>]})

\* lines 350-366: the status is read and the success response is built
DeployStatus(h) ==
  /\ pc[h] = "status"
  /\ \E o \in HelmStatusOutcomes(local[h].release_name,
                                 json_data[h].namespace) :
       /\ calls' = [calls EXCEPT ![h] = @ \o o.cmds]
       /\ Return(h, [NoResult EXCEPT
                       !.code = 200, !.status = "success",
                       !.message = "created/updated successfully",
                       !.release_name = local[h].release_name,
                       !.helm_status = o.status,
                       !.conn_id = local[h].airflow_id,
                       !.conn_host = local[h].host,
                       !.conn_status = local[h].conn_status])
  /\ UNCHANGED <<op, json_data, local, worldVars, fn>>

(***************************************************************************)
(* DELETE /api/v1/deployments/<deployment_id>: delete_deployment           *)
(* (lines 408-499)                                                         *)
(***************************************************************************)

\* line 442
PvcPrefix(k8s_name) ==
  Str_dbt_server \o <<"-">> \o k8s_name \o <<"-">> \o Str_dbt_server
  \o <<"-">> \o k8s_name \o <<"-">>

\* the sequences that list the elements of S once each
Orderings(S) ==
  {q \in [1..Cardinality(S) -> S] : \A i, j \in DOMAIN q : i # j => q[i] # q[j]}

StartDelete(h, deployment_id) ==
  /\ Start(h, "delete", NoData, [NoLocal EXCEPT !.k8s_name = deployment_id])
  /\ pc' = [pc EXCEPT ![h] = "x_list"]

\* DelVerify without the existence test
DelVerify_NoCheck(h) ==
  /\ pc[h] = "x_list"
  /\ \/ /\ <<local[h].k8s_name, DeleteNamespace>> \in DOMAIN releases
        /\ Call(h, "helm list", "ok")
     \/ /\ <<local[h].k8s_name, DeleteNamespace>> \notin DOMAIN releases
        /\ Call(h, "helm list", "absent")
     \/ Call(h, "helm list", "failed")
  /\ Goto(h, "x_uninstall")
  /\ UNCHANGED <<op, json_data, local, worldVars, fn>>

\* get_helm_releases(namespace) and the existence test (lines 418-428); a
\* failing listing command gives the empty list
DelVerify(h) ==
  /\ pc[h] = "x_list"
  /\ \/ /\ <<local[h].k8s_name, DeleteNamespace>> \in DOMAIN releases
        /\ Call(h, "helm list", "ok")
        /\ Goto(h, "x_uninstall")
     \/ /\ <<local[h].k8s_name, DeleteNamespace>> \notin DOMAIN releases
        /\ Call(h, "helm list", "absent")
        /\ Return(h, ErrorResult(404, "not found", "Deployment not found"))
     \/ /\ Call(h, "helm list", "failed")
        /\ Return(h, ErrorResult(404, "not found", "Deployment not found"))
  /\ UNCHANGED <<op, json_data, local, worldVars, fn>>

\* DelUninstall without the return on a non-zero exit code
DelUninstall_NoAbort(h) ==
  /\ pc[h] = "x_uninstall"
  /\ \/ /\ <<local[h].k8s_name, DeleteNamespace>> \in DOMAIN releases
        /\ Call(h, "helm uninstall", "ok")
        /\ releases' = Drop(releases, <<local[h].k8s_name, DeleteNamespace>>)
     \/ /\ Call(h, "helm uninstall", "failed")
        /\ UNCHANGED releases
  /\ Goto(h, "x_pvc_list")
  /\ UNCHANGED <<op, json_data, local, files, connections, pvcs, fn>>

\* helm uninstall (lines 431-439)
DelUninstall(h) ==
  /\ pc[h] = "x_uninstall"
  /\ \/ /\ <<local[h].k8s_name, DeleteNamespace>> \in DOMAIN releases
        /\ Call(h, "helm uninstall", "ok")
        /\ releases' = Drop(releases, <<local[h].k8s_name, DeleteNamespace>>)
        /\ Goto(h, "x_pvc_list")
     \/ /\ Call(h, "helm uninstall", "failed")
        /\ \/ Return(h, ErrorResult(500, "Failed to delete deployment",
                                    "helm uninstall"))
           \/ Return(h, ErrorResult(500, "exception", "helm uninstall"))
        /\ UNCHANGED releases
  /\ UNCHANGED <<op, json_data, local, files, connections, pvcs, fn>>

\* kubectl get pvc (lines 443-449 and 458-459): pvc_names is the listing,
\* pvc_rest the part of it the loop has not visited yet
DelPvcList(h) ==
  /\ pc[h] = "x_pvc_list"
  /\ \/ \E names \in Orderings(pvcs) :
          /\ Call(h, "kubectl get pvc", "ok")
          /\ local' = [local EXCEPT ![h].pvc_names = names,
                                    ![h].pvc_rest = names]
          /\ Goto(h, "x_pvc_loop")
     \/ /\ Call(h, "kubectl get pvc", "failed")
        /\ Goto(h, "x_conn_get")
        /\ UNCHANGED local
  /\ UNCHANGED <<op, json_data, worldVars, fn>>

\* DelPvcStep putting a volume claim it skips back at the end of the list
DelPvcStep_SkippedComesBack(h) ==
  /\ pc[h] = "x_pvc_loop"
  /\ IF local[h].pvc_rest = <<>>
       THEN /\ Goto(h, "x_conn_get")
            /\ UNCHANGED <<local, calls, pvcs>>
       ELSE LET pvc  == Head(local[h].pvc_rest)
                rest == Tail(local[h].pvc_rest)
            IN  /\ Goto(h, "x_pvc_loop")
                /\ IF StartsWith(pvc, PvcPrefix(local[h].k8s_name))
                     THEN \/ /\ CallOn(h, "kubectl delete pvc", pvc, "ok")
                             /\ pvcs' = pvcs \ {pvc}
                             /\ local' = [local EXCEPT
                                  ![h].pvc_rest = rest,
                                  ![h].deleted_pvcs = Append(@, pvc)]
                          \/ /\ CallOn(h, "kubectl delete pvc", pvc, "failed")
                             /\ local' = [local EXCEPT
                                  ![h].pvc_rest = rest]
                             /\ UNCHANGED pvcs
                     ELSE /\ local' = [local EXCEPT
                                  ![h].pvc_rest = Append(rest, pvc)]
                          /\ UNCHANGED <<calls, pvcs>>
  /\ UNCHANGED <<op, json_data, files, releases, connections, fn>>

\* DelPvcStep without the prefix test: every listed volume claim is deleted
DelPvcStep_NoFilter(h) ==
  /\ pc[h] = "x_pvc_loop"
  /\ IF local[h].pvc_rest = <<>>
       THEN /\ Goto(h, "x_conn_get")
            /\ UNCHANGED <<local, calls, pvcs>>
       ELSE LET pvc  == Head(local[h].pvc_rest)
                rest == Tail(local[h].pvc_rest)
            IN  /\ Goto(h, "x_pvc_loop")
                /\ \/ /\ CallOn(h, "kubectl delete pvc", pvc, "ok")
                      /\ pvcs' = pvcs \ {pvc}
                      /\ local' = [local EXCEPT
                           ![h].pvc_rest = rest,
                           ![h].deleted_pvcs = Append(@, pvc)]
                   \/ /\ CallOn(h, "kubectl delete pvc", pvc, "failed")
                      /\ local' = [local EXCEPT ![h].pvc_rest = rest]
                      /\ UNCHANGED pvcs
  /\ UNCHANGED <<op, json_data, files, releases, connections, fn>>

\* DelPvcStep leaving the loop at the first deletion that fails
DelPvcStep_StopOnFailure(h) ==
  /\ pc[h] = "x_pvc_loop"
  /\ IF local[h].pvc_rest = <<>>
       THEN /\ Goto(h, "x_conn_get")
            /\ UNCHANGED <<local, calls, pvcs>>
       ELSE LET pvc  == Head(local[h].pvc_rest)
                rest == Tail(local[h].pvc_rest)
            IN  /\ Goto(h, "x_pvc_loop")
                /\ IF StartsWith(pvc, PvcPrefix(local[h].k8s_name))
                     THEN \/ /\ CallOn(h, "kubectl delete pvc", pvc, "ok")
                             /\ pvcs' = pvcs \ {pvc}
                             /\ local' = [local EXCEPT
                                  ![h].pvc_rest = rest,
                                  ![h].deleted_pvcs = Append(@, pvc)]
                          \/ /\ CallOn(h, "kubectl delete pvc", pvc, "failed")
                             /\ local' = [local EXCEPT
                                  ![h].pvc_rest = <<>>]
                             /\ UNCHANGED pvcs
                     ELSE /\ local' = [local EXCEPT ![h].pvc_rest = rest]
                          /\ UNCHANGED <<calls, pvcs>>
  /\ UNCHANGED <<op, json_data, files, releases, connections, fn>>

\* one round of the loop over pvc_names (lines 450-457)
DelPvcStep(h) ==
  /\ pc[h] = "x_pvc_loop"
  /\ IF local[h].pvc_rest = <<>>
       THEN /\ Goto(h, "x_conn_get")
            /\ UNCHANGED <<local, calls, pvcs>>
       ELSE LET pvc  == Head(local[h].pvc_rest)
                rest == Tail(local[h].pvc_rest)
            IN  /\ Goto(h, "x_pvc_loop")
                /\ IF StartsWith(pvc, PvcPrefix(local[h].k8s_name))
                     THEN \/ /\ CallOn(h, "kubectl delete pvc", pvc, "ok")
                             /\ pvcs' = pvcs \ {pvc}
                             /\ local' = [local EXCEPT
                                  ![h].pvc_rest = rest,
                                  ![h].deleted_pvcs = Append(@, pvc)]
                          \/ /\ CallOn(h, "kubectl delete pvc", pvc, "failed")
                             /\ local' = [local EXCEPT
                                  ![h].pvc_rest = rest]
                             /\ UNCHANGED pvcs
                     ELSE /\ local' = [local EXCEPT ![h].pvc_rest = rest]
                          /\ UNCHANGED <<calls, pvcs>>
  /\ UNCHANGED <<op, json_data, files, releases, connections, fn>>

\* lines 480-493
DeleteSuccess(h, status, error) ==
  Return(h, [NoResult EXCEPT
               !.code = 200, !.status = "success",
               !.message = "deleted successfully",
               !.release_name = local[h].k8s_name,
               !.pvc_deleted = local[h].deleted_pvcs,
               !.conn_id = local[h].k8s_name,
               !.conn_status = status,
               !.conn_error = error])

\* airflow_service.get_connection(k8s_name) (line 465)
DelConnGet(h) ==
  /\ pc[h] = "x_conn_get"
  /\ \/ /\ local[h].k8s_name \in DOMAIN connections
        /\ Call(h, "GET connection", "ok")
        /\ Goto(h, "x_conn_delete")
     \/ /\ local[h].k8s_name \notin DOMAIN connections
        /\ Call(h, "GET connection", "404")
        /\ DeleteSuccess(h, "not_found", "-")
     \/ /\ Call(h, "GET connection", "failed")
        /\ DeleteSuccess(h, "error", "GET connection failed")
  /\ UNCHANGED <<op, json_data, local, worldVars, fn>>

\* DelConnDelete reporting 'deleted' whatever the deletion call did
DelConnDelete_AlwaysDeleted(h) ==
  /\ pc[h] = "x_conn_delete"
  /\ \/ /\ Call(h, "DELETE connection",
                IF local[h].k8s_name \in DOMAIN connections
                  THEN "ok" ELSE "404")
        /\ connections' = Drop(connections, local[h].k8s_name)
        /\ DeleteSuccess(h, "deleted", "-")
     \/ /\ Call(h, "DELETE connection", "failed")
        /\ DeleteSuccess(h, "deleted", "-")
        /\ UNCHANGED connections
  /\ UNCHANGED <<op, json_data, local, files, releases, pvcs, fn>>

\* DelConnDelete with a failed deletion ending the request as an error
DelConnDelete_Fatal(h) ==
  /\ pc[h] = "x_conn_delete"
  /\ \/ /\ Call(h, "DELETE connection",
                IF local[h].k8s_name \in DOMAIN connections
                  THEN "ok" ELSE "404")
        /\ connections' = Drop(connections, local[h].k8s_name)
        /\ DeleteSuccess(h, "deleted", "-")
     \/ /\ Call(h, "DELETE connection", "failed")
        /\ Return(h, ErrorResult(500, "exception",
                                 "DELETE connection failed"))
        /\ UNCHANGED connections
  /\ UNCHANGED <<op, json_data, local, files, releases, pvcs, fn>>

\* airflow_service.delete_connection(k8s_name) (line 466): the answers 204
\* and 404 both return normally
DelConnDelete(h) ==
  /\ pc[h] = "x_conn_delete"
  /\ \/ /\ Call(h, "DELETE connection",
                IF local[h].k8s_name \in DOMAIN connections
                  THEN "ok" ELSE "404")
        /\ connections' = Drop(connections, local[h].k8s_name)
        /\ DeleteSuccess(h, "deleted", "-")
     \/ /\ Call(h, "DELETE connection", "failed")
        /\ DeleteSuccess(h, "error", "DELETE connection failed")
        /\ UNCHANGED connections
  /\ UNCHANGED <<op, json_data, local, files, releases, pvcs, fn>>

(***************************************************************************)
(* POST /api/v1/deployments/deployments: create_deployment (lines 501-568) *)
(***************************************************************************)

\* line 513-516
CreateConnectionId(data) ==
  airflow_connection_id(data.dbt_repo_name, data.git_branch)

\* line 517
CreateHost(data) ==
  IF data.https_enabled
    THEN [scheme |-> "https",
          label  |-> Str_dbt_server \o <<"-">> \o data.project_name,
          zone   |-> <<data.customer, data.domain>>,
          path   |-> "/invocations"]
    ELSE [scheme |-> "http",
          label  |-> Str_dbt_server \o <<"-">> \o data.project_name,
          zone   |-> <<data.namespace, "svc", "cluster", "local">>,
          path   |-> "/invocations"]

StartCreate(h, body) ==
  \E data \in ValidatedData(body) :
    /\ Start(h, "create", data,
             [NoLocal EXCEPT !.airflow_id = CreateConnectionId(data),
                             !.host = CreateHost(data)])
    /\ pc' = [pc EXCEPT ![h] = "c_conn_get"]

\* lines 556-564: the response, whatever the connection calls did
CreateReturn(h) ==
  Return(h, [NoResult EXCEPT
               !.code = 201,
               !.message = "Deployment created successfully",
               !.release_name = Str_dbt_server \o <<"-">>
                                \o json_data[h].project_name,
               !.conn_id = local[h].airflow_id])

\* line 524; an exception whose text holds "Not Found" leads to the create
CreateConnGet(h) ==
  /\ pc[h] = "c_conn_get"
  /\ \/ /\ local[h].airflow_id \in DOMAIN connections
        /\ Call(h, "GET connection", "ok")
        /\ Goto(h, "c_conn_patch")
     \/ /\ local[h].airflow_id \notin DOMAIN connections
        /\ Call(h, "GET connection", "404")
        /\ Goto(h, "c_conn_post")
     \/ /\ Call(h, "GET connection", "failed")
        /\ CreateReturn(h)
  /\ UNCHANGED <<op, json_data, local, worldVars, fn>>

\* lines 526-535
CreateConnPatch(h) ==
  /\ pc[h] = "c_conn_patch"
  /\ \/ /\ local[h].airflow_id \in DOMAIN connections
        /\ Call(h, "PATCH connection", "ok")
        /\ connections' = Put(connections, local[h].airflow_id,
                              DeployRecord(h))
        /\ local' = [local EXCEPT ![h].sent = Sent(h, "PATCH")]
        /\ CreateReturn(h)
     \/ /\ local[h].airflow_id \notin DOMAIN connections
        /\ Call(h, "PATCH connection", "404")
        /\ local' = [local EXCEPT ![h].sent = Sent(h, "PATCH")]
        /\ Goto(h, "c_conn_post")
        /\ UNCHANGED connections
     \/ /\ Call(h, "PATCH connection", "failed")
        /\ CreateReturn(h)
        /\ UNCHANGED <<connections, local>>
  /\ UNCHANGED <<op, json_data, files, releases, pvcs, fn>>

\* lines 539-545
CreateConnPost(h) ==
  /\ pc[h] = "c_conn_post"
  /\ \/ /\ local[h].airflow_id \notin DOMAIN connections
        /\ Call(h, "POST connection", "ok")
        /\ connections' = Put(connections, local[h].airflow_id,
                              DeployRecord(h))
        /\ local' = [local EXCEPT ![h].sent = Sent(h, "POST")]
        /\ CreateReturn(h)
     \/ /\ Call(h, "POST connection", "failed")
        /\ CreateReturn(h)
        /\ UNCHANGED <<connections, local>>
  /\ UNCHANGED <<op, json_data, files, releases, pvcs, fn>>

(***************************************************************************)
(* GET /api/v1/deployments: list_deployments (lines 375-406)               *)
(***************************************************************************)

\* lines 391-402: the releases of all namespaces that pass the name filter
ListedDeployments ==
  {key[1] : key \in {k \in DOMAIN releases :
                       StartsWith(k[1], Str_dbt_server \o <<"-">>)}}

StartList(h) ==
  /\ Start(h, "list", NoData, NoLocal)
  /\ pc' = [pc EXCEPT ![h] = "l_list"]

ListDeployments(h) ==
  /\ pc[h] = "l_list"
  /\ \/ /\ Call(h, "helm list -A", "ok")
        /\ Return(h, [NoResult EXCEPT !.code = 200,
                                      !.deployments = ListedDeployments])
     \/ /\ Call(h, "helm list -A", "failed")
        /\ Return(h, ErrorResult(500, "abort", "helm list -A"))
  /\ UNCHANGED <<op, json_data, local, worldVars, fn>>

\* the response has been sent; the handler is free for the next request
Reset(h) ==
  /\ pc[h] = "done"
  /\ pc' = [pc EXCEPT ![h] = "idle"]
  /\ op' = [op EXCEPT ![h] = "-"]
  /\ json_data' = [json_data EXCEPT ![h] = NoData]
  /\ local' = [local EXCEPT ![h] = NoLocal]
  /\ calls' = [calls EXCEPT ![h] = <<>>]
  /\ result' = [result EXCEPT ![h] = NoResult]
  /\ UNCHANGED <<worldVars, fn>>

(***************************************************************************)
(* The service                                                             *)
(***************************************************************************)
NoFn ==
  [project |-> <<>>, branch |-> None, prefix |-> <<>>, called |-> {},
   name |-> <<>>, again |-> <<>>, conn |-> <<>>, volarg |-> <<>>,
   vol |-> <<>>, request |-> <<>>, loaded |-> <<>>, written |-> {},
   context |-> <<>>, project2 |-> <<>>, branch2 |-> None, name2 |-> <<>>,
   value |-> <<>>, sanitized |-> <<>>, resanitized |-> <<>>,
   conn_sanitized |-> <<>>]

\* the volume claims of the namespace when the service starts: one of a
\* release of tenant A, one that belongs to nothing the service manages
InitialPvcs ==
  {PvcPrefix(k8s_resource_name(BodyA.project_name, BodyA.git_branch))
     \o <<"0">>,
   <<"o","t","h","e","r">>}

InitHandlers ==
  /\ pc = [h \in Handlers |-> "idle"]
  /\ op = [h \in Handlers |-> "-"]
  /\ json_data = [h \in Handlers |-> NoData]
  /\ local = [h \in Handlers |-> NoLocal]
  /\ calls = [h \in Handlers |-> <<>>]
  /\ result = [h \in Handlers |-> NoResult]
  /\ before = [h \in Handlers |-> NoDone]
  /\ lastDone = NoDone

Init ==
  /\ InitHandlers
  /\ files = <<>>
  /\ releases = <<>>
  /\ connections = <<>>
  /\ pvcs = InitialPvcs
  /\ fn = NoFn

StartRequest(h) ==
  \/ \E body \in Bodies : StartDeploy(h, body)
  \/ \E body \in Bodies : StartCreate(h, body)
  \/ \E id \in DeleteIds : StartDelete(h, id)
  \/ StartList(h)

Step(h) ==
  \/ DeployRender(h)
  \/ DeployRepoAdd(h)
  \/ DeployRepoUpdate(h)
  \/ DeployUpgrade(h)
  \/ DeployConnGet(h)
  \/ DeployConnPatch(h)
  \/ DeployConnPost(h)
  \/ DeployStatus(h)
  \/ DelVerify(h)
  \/ DelUninstall(h)
  \/ DelPvcList(h)
  \/ DelPvcStep(h)
  \/ DelConnGet(h)
  \/ DelConnDelete(h)
  \/ CreateConnGet(h)
  \/ CreateConnPatch(h)
  \/ CreateConnPost(h)
  \/ ListDeployments(h)
  \/ Reset(h)

AllIdle ==
  \A h \in Handlers : pc[h] = "idle"

\* the record of completed requests: lastDone is the request that returned
\* last, before[h] the one that had returned last when h's request began
Track ==
  /\ lastDone' =
       IF \E h \in Handlers : pc[h] # "done" /\ pc'[h] = "done"
         THEN LET h == CHOOSE g \in Handlers :
                         pc[g] # "done" /\ pc'[g] = "done"
              IN  [op |-> op[h], data |-> json_data[h], calls |-> calls'[h],
                   result |-> result'[h], body |-> local'[h].body,
                   applied |-> local'[h].applied, sent |-> local'[h].sent]
         ELSE lastDone
  /\ before' = [h \in Handlers |->
                  IF pc'[h] = "idle" THEN NoDone
                  ELSE IF pc[h] = "idle" THEN lastDone
                  ELSE before[h]]

\* the service, one request in flight at a time
Next ==
  /\ \E h \in Handlers : (AllIdle /\ StartRequest(h)) \/ Step(h)
  /\ Track

Spec ==
  Init /\ [][Next]_vars

\* create-or-update requests served concurrently by the two handlers
NextConc ==
  /\ \E h \in Handlers :
    \/ \E body \in Bodies : StartDeploy(h, body)
    \/ DeployRender(h)
    \/ DeployRepoAdd(h)
    \/ DeployRepoUpdate(h)
    \/ DeployUpgrade(h)
    \/ DeployConnGet(h)
    \/ DeployConnPatch(h)
    \/ DeployConnPost(h)
    \/ DeployStatus(h)
    \/ Reset(h)
  /\ UNCHANGED <<lastDone, before>>

SpecConc ==
  Init /\ [][NextConc]_vars

(***************************************************************************)
(* Create-or-update and delete requests, each handler running on           *)
(***************************************************************************)

\* the next statement of the request handler h is serving; every external
\* call of the statement returns or raises within the step
Run(h) ==
  /\ \/ DeployRender(h)
     \/ DeployRepoAdd(h)
     \/ DeployRepoUpdate(h)
     \/ DeployUpgrade(h)
     \/ DeployConnGet(h)
     \/ DeployConnPatch(h)
     \/ DeployConnPost(h)
     \/ DeployStatus(h)
     \/ DelVerify(h)
     \/ DelUninstall(h)
     \/ DelPvcList(h)
     \/ DelPvcStep(h)
     \/ DelConnGet(h)
     \/ DelConnDelete(h)
     \/ Reset(h)
  /\ UNCHANGED <<lastDone, before>>

Arrive(h) ==
  /\ AllIdle
  /\ \/ \E body \in Bodies : StartDeploy(h, body)
     \/ \E id \in DeleteIds : StartDelete(h, id)
  /\ UNCHANGED <<lastDone, before>>

NextLive ==
  \E h \in Handlers : Arrive(h) \/ Run(h)

\* a handler that has a statement to run runs it: the worker serving a
\* request is never suspended for ever
SpecLive ==
  /\ Init
  /\ [][NextLive]_vars
  /\ \A h \in Handlers : WF_vars(Run(h))

(***************************************************************************)
(* A client repeating one create-or-update request                         *)
(***************************************************************************)

\* tenant A's body as it is, without a user, without a password
CredBodies ==
  {BodyA, [BodyA EXCEPT !.basic_auth_user = ""],
   [BodyA EXCEPT !.basic_auth_password = ""]}

\* every request carries the body of the first one; one request at a time
StartRepeat(h) ==
  \E body \in CredBodies :
    /\ lastDone.op = "-" \/ lastDone.body = body
    /\ StartDeploy(h, body)

NextRepeat ==
  /\ \E h \in Handlers :
       \/ AllIdle /\ StartRepeat(h)
       \/ DeployRender(h)
       \/ DeployRepoAdd(h)
       \/ DeployRepoUpdate(h)
       \/ DeployUpgrade(h)
       \/ DeployConnGet(h)
       \/ DeployConnPatch(h)
       \/ DeployConnPost(h)
       \/ DeployStatus(h)
       \/ Reset(h)
  /\ Track

SpecRepeat ==
  Init /\ [][NextRepeat]_vars

(***************************************************************************)
(* Delete requests against a cluster that holds tenant A's release         *)
(***************************************************************************)

\* volume claims namespace dbt-server may hold: two of tenant A's release,
\* one of tenant B's name, one that belongs to nothing the service manages
PvcPool ==
  {PvcPrefix(DeployNames(BodyA).k8s_name) \o <<"0">>,
   PvcPrefix(DeployNames(BodyA).k8s_name) \o <<"1">>,
   PvcPrefix(DeployNames(BodyB).k8s_name) \o <<"0">>,
   <<"o","t","h","e","r">>}

\* the record a successful create-or-update of body registers
RegisteredRecord(body) ==
  [host |-> DeployHost(body, DeployNames(body).k8s_name),
   login |-> body.basic_auth_user, password |-> body.basic_auth_password]

\* tenant A's release is installed; its connection record and the volume
\* claims of the namespace are any of the combinations
InitDelete ==
  /\ InitHandlers
  /\ files = Put(<<>>, values_path(BodyA), RenderedDoc(BodyA))
  /\ releases = Put(<<>>, <<DeployNames(BodyA).release_name,
                            BodyA.namespace>>, RenderedDoc(BodyA))
  /\ connections \in {<<>>, Put(<<>>, DeployNames(BodyA).airflow_id,
                                 RegisteredRecord(BodyA))}
  /\ pvcs \in SUBSET PvcPool
  /\ fn = NoFn

\* the registry is shared: another of its clients removes a record
RegistryForgets ==
  /\ \E id \in DOMAIN connections : connections' = Drop(connections, id)
  /\ UNCHANGED <<handlerVars, files, releases, pvcs, fn>>

NextDelete ==
  /\ \/ RegistryForgets
     \/ \E h \in Handlers :
          \/ AllIdle /\ \E id \in DeleteIds : StartDelete(h, id)
          \/ DelVerify(h)
          \/ DelUninstall(h)
          \/ DelPvcList(h)
          \/ DelPvcStep(h)
          \/ DelConnGet(h)
          \/ DelConnDelete(h)
          \/ Reset(h)
  /\ UNCHANGED <<lastDone, before>>

SpecDelete ==
  InitDelete /\ [][NextDelete]_vars

(***************************************************************************)
(* The identifier functions applied to inputs drawn from bounded sets      *)
(***************************************************************************)
MaxNameLen ==
  64

MaxPrefixLen ==
  64

\* the first n characters of pattern repeated
Fill(pattern, n) ==
  [i \in 1..n |-> pattern[((i - 1) % Len(pattern)) + 1]]

NameLens ==
  {0, 1, 2, 48, 49, 50, 51, MaxNameLen}

ProjectNames ==
  {Fill(p, n) : p \in {<<"a">>, <<"a", "-", "b">>, <<"A", "_", "!">>, <<"!">>},
                n \in NameLens}
  \cup {<<"F","a","s","t","b","i"," ","D","e","m","o","!">>,
        <<"s","e","r","v","e","r","-","x">>}

Branches ==
  {None, <<>>, <<"m","a","i","n">>, <<"D","D","_","2","/","x">>}

Prefixes ==
  {<<"d","b","t","-","s","e","r","v","e","r","-","d","a","t","a","w","a","r",
     "e","h","o","u","s","e","-","s","e","c","r","e","t","s">>,
   <<"d","b","t","-","s","e","r","v","e","r","-","n","g","i","n","x","-",
     "p","r","o","x","y">>}
  \cup {Fill(<<"p">>, n) : n \in {0, 61, 62, 63, MaxPrefixLen}}

InitNames ==
  /\ InitHandlers
  /\ files = <<>>
  /\ releases = <<>>
  /\ connections = <<>>
  /\ pvcs = {}
  /\ \E p \in ProjectNames, b \in Branches, x \in Prefixes :
       fn = [NoFn EXCEPT !.project = p, !.branch = b, !.prefix = x]

FnCall(what) ==
  /\ what \notin fn.called
  /\ UNCHANGED <<handlerVars, worldVars>>

CallResourceName ==
  /\ FnCall("name")
  /\ fn' = [fn EXCEPT !.called = @ \cup {"name"},
                      !.name = k8s_resource_name(fn.project, fn.branch)]

CallResourceNameAgain ==
  /\ FnCall("again")
  /\ fn' = [fn EXCEPT !.called = @ \cup {"again"},
                      !.again = k8s_resource_name(fn.project, fn.branch)]

CallConnectionId ==
  /\ FnCall("conn")
  /\ fn' = [fn EXCEPT !.called = @ \cup {"conn"},
                      !.conn = airflow_connection_id(fn.project, fn.branch)]

\* get_volume_name on a derived resource name, or on any string as the name
CallVolumeName ==
  /\ FnCall("vol")
  /\ \E n \in {k8s_resource_name(fn.project, fn.branch), fn.project} :
       fn' = [fn EXCEPT !.called = @ \cup {"vol"}, !.volarg = n,
                        !.vol = get_volume_name(fn.prefix, n)]

NextNames ==
  \/ CallResourceName
  \/ CallResourceNameAgain
  \/ CallConnectionId
  \/ CallVolumeName

SpecNames ==
  InitNames /\ [][NextNames]_vars

(***************************************************************************)
(* k8s_resource_name applied to two (project name, branch) pairs           *)
(***************************************************************************)

\* sanitized project names around the truncation length, some of them one
\* another followed by "-b"
PairProjects ==
  {<<"a">>, <<"a","-","b">>,
   Fill(<<"a">>, 48), Fill(<<"a">>, 49), Fill(<<"a">>, 50),
   Fill(<<"a">>, 49) \o <<"-","b">>, Fill(<<"a">>, 50) \o <<"-","b">>}

PairBranches ==
  {None, <<"b">>, <<"c">>, <<"b","-","c">>}

InitPairs ==
  /\ InitHandlers
  /\ files = <<>>
  /\ releases = <<>>
  /\ connections = <<>>
  /\ pvcs = {}
  /\ \E p \in PairProjects, b \in PairBranches,
        q \in PairProjects, c \in PairBranches :
       fn = [NoFn EXCEPT !.project = p, !.branch = b,
                         !.project2 = q, !.branch2 = c]

CallResourceNameOther ==
  /\ FnCall("name2")
  /\ fn' = [fn EXCEPT !.called = @ \cup {"name2"},
                      !.name2 = k8s_resource_name(fn.project2, fn.branch2)]

NextPairs ==
  \/ CallResourceName
  \/ CallResourceNameOther

SpecPairs ==
  InitPairs /\ [][NextPairs]_vars

(***************************************************************************)
(* The two sanitisers applied to strings drawn from a bounded set          *)
(***************************************************************************)
MaxValueLen ==
  252

ValueLens ==
  {0, 1, 2, 3, 5, 249, 250, 251, MaxValueLen}

ValuePatterns ==
  {<<"a">>, <<"-">>, <<"_">>, <<"!">>, <<"a", "-">>, <<"-", "a">>,
   <<"a", "_">>, <<"_", "a">>, <<"a", "-", "-", "b">>, <<"A", "_", "_", "!">>,
   <<"-", "A", "b", "_", "-", "9", " ", ".", "/">>}

Values ==
  {Fill(p, n) : p \in ValuePatterns, n \in ValueLens}
  \cup {Fill(<<"a">>, 249) \o <<"_", "b">>, Fill(<<"a">>, 249) \o <<"-", "b">>}

InitSanitize ==
  /\ InitHandlers
  /\ files = <<>>
  /\ releases = <<>>
  /\ connections = <<>>
  /\ pvcs = {}
  /\ \E v \in Values : fn = [NoFn EXCEPT !.value = v]

CallSanitize ==
  /\ FnCall("sanitize")
  /\ fn' = [fn EXCEPT !.called = @ \cup {"sanitize"},
                      !.sanitized = sanitize_k8s_name(fn.value)]

\* sanitize_k8s_name applied to its own output
CallSanitizeAgain ==
  /\ "sanitize" \in fn.called
  /\ FnCall("resanitize")
  /\ fn' = [fn EXCEPT !.called = @ \cup {"resanitize"},
                      !.resanitized = sanitize_k8s_name(fn.sanitized)]

CallSanitizeConnId ==
  /\ FnCall("conn_sanitize")
  /\ fn' = [fn EXCEPT !.called = @ \cup {"conn_sanitize"},
                      !.conn_sanitized = sanitize_airflow_conn_id(fn.value)]

NextSanitize ==
  \/ CallSanitize
  \/ CallSanitizeAgain
  \/ CallSanitizeConnId

SpecSanitize ==
  InitSanitize /\ [][NextSanitize]_vars

(***************************************************************************)
(* GET /health/liveness, /health/readiness, /health/startup (health.py)    *)
(***************************************************************************)
Probes ==
  {"liveness", "readiness", "startup"}

\* what helm list --output json can do under check_helm_connectivity: exit
\* code 0, a non-zero exit code (CalledProcessError), or no run at all
HelmListOutcomes ==
  {"ok", "failed", "raised"}

\* check_helm_connectivity (lines 9-25)
check_helm_connectivity(out) ==
  out = "ok"

\* the body of the 200 answer of a probe
ProbeUp(probe) ==
  [NoResult EXCEPT
     !.code = 200,
     !.status = CASE probe = "liveness"  -> "alive"
                  [] probe = "readiness" -> "ready"
                  [] probe = "startup"   -> "started",
     !.checks = IF probe = "liveness" THEN "-" ELSE "ok"]

\* the body of the 503 answer of a probe: checks.helm is the text of the
\* exception the handler raised
ProbeDown(probe) ==
  [NoResult EXCEPT
     !.code = 503,
     !.status = CASE probe = "readiness" -> "not_ready"
                  [] probe = "startup"   -> "not_started",
     !.checks = "Helm is not properly configured or cannot connect to the cluster"]

StartProbe(h, probe) ==
  /\ Start(h, probe, NoData, NoLocal)
  /\ pc' = [pc EXCEPT ![h] = IF probe = "liveness" THEN "p_alive"
                                                   ELSE "p_check"]

\* liveness (lines 27-40)
Liveness(h) ==
  /\ pc[h] = "p_alive"
  /\ Return(h, ProbeUp("liveness"))
  /\ UNCHANGED <<op, json_data, local, calls, worldVars, fn>>

\* ReadinessOrStartup answering 200 whatever the check returns
ReadinessOrStartup_NoCheck(h) ==
  /\ pc[h] = "p_check"
  /\ \E out \in HelmListOutcomes :
       /\ Call(h, "helm list", out)
       /\ Return(h, ProbeUp(op[h]))
  /\ UNCHANGED <<op, json_data, local, worldVars, fn>>

\* readiness (lines 42-73) and startup (lines 75-106)
ReadinessOrStartup(h) ==
  /\ pc[h] = "p_check"
  /\ \E out \in HelmListOutcomes :
       /\ Call(h, "helm list", out)
       /\ IF check_helm_connectivity(out)
            THEN Return(h, ProbeUp(op[h]))
            ELSE Return(h, ProbeDown(op[h]))
  /\ UNCHANGED <<op, json_data, local, worldVars, fn>>

\* the probes, served concurrently by the two handlers
NextHealth ==
  /\ \E h \in Handlers :
       \/ \E probe \in Probes : StartProbe(h, probe)
       \/ Liveness(h)
       \/ ReadinessOrStartup(h)
       \/ Reset(h)
  /\ UNCHANGED <<lastDone, before>>

SpecHealth ==
  Init /\ [][NextHealth]_vars

(***************************************************************************)
(* Request validation and the render context                               *)
(***************************************************************************)

\* dict.get(key, default) of a dict d
Get(d, key, default) ==
  IF key \in DOMAIN d THEN d[key] ELSE default

Str_bigquery ==
  <<"b","i","g","q","u","e","r","y">>

Str_snowflake ==
  <<"s","n","o","w","f","l","a","k","e">>

Str_gcp ==
  <<"g","c","p">>

Str_aws ==
  <<"a","w","s">>

Str_prod ==
  <<"p","r","o","d">>

Str_dev ==
  <<"d","e","v">>

Str_account ==
  <<"s","a","@","x",".","i","o">>

\* DeploymentCreateSchema: the load_default of the optional fields of the
\* model (lines 60-63, 79-82, 89-92, 221-224, 367-370)
load_default ==
  [environment             |-> Str_prod,
   cloud_provider          |-> Str_gcp,
   datawarehouse_type      |-> <<>>,
   service_account         |-> None,
   data_warehouse_platform |-> <<>>]

\* Schema.load without the validators' side effects: a field of the body
\* keeps its value, an absent one gets its load_default
Deserialize(body) ==
  [k \in DOMAIN load_default |-> Get(body, k, load_default[k])]

\* the context of the schema instance: the route decorator builds the schema
\* with no arguments, so the context is the empty dict
SchemaContext ==
  <<>>

\* @validates('data_warehouse_platform') (lines 410-417): the dict the
\* validator has written to when it returns
sync_data_warehouse_fields(value) ==
  LET data == Get(SchemaContext, "data", <<>>)
  IN  IF Truthy(value) /\ ~Truthy(Get(data, "datawarehouse_type", None))
        THEN Put(data, "datawarehouse_type", value)
        ELSE data

\* @validates('datawarehouse_type') (lines 419-426)
sync_datawarehouse_fields(value) ==
  LET data == Get(SchemaContext, "data", <<>>)
  IN  IF Truthy(value) /\ ~Truthy(Get(data, "data_warehouse_platform", None))
        THEN Put(data, "data_warehouse_platform", value)
        ELSE data

\* the dicts the field validators of a load of body write to; a validator
\* runs for a field the body carries
ValidatorWrites(body) ==
  {sync_data_warehouse_fields(body[k]) :
     k \in DOMAIN body \cap {"data_warehouse_platform"}}
  \cup {sync_datawarehouse_fields(body[k]) :
          k \in DOMAIN body \cap {"datawarehouse_type"}}

\* DeploymentCreateSchema().load(body): the validated data is the
\* deserialized body; what the validators wrote stays in their own dict
\* unless that dict is the context's 'data' entry
SchemaLoad(body) ==
  Deserialize(body)

\* current_app.config: the upper-case attributes of Config
\* (core/config.py lines 11-41), by the entries the model reads
AppConfig ==
  [KUBERNETES_NAMESPACE |-> <<"d","b","t","-","s","e","r","v","e","r">>,
   HELM_REPO_NAME       |-> <<"k","u","b","e","-","c","o","r","e">>]

\* the context of render_values_file (lines 137-192), by the entries of the
\* request attributes of the model
RenderContext(data) ==
  [environment             |-> Get(data, "environment", Str_prod),
   cloud_provider          |-> Get(AppConfig, "CLOUD_PROVIDER", None),
   service_account         |-> Get(AppConfig, "GCP_SERVICE_ACCOUNT", None),
   datawarehouse_type      |-> Get(data, "datawarehouse_type", <<>>),
   data_warehouse_platform |-> Get(data, "data_warehouse_platform", <<>>)]

\* marks a field the inbound body does not carry
Missing ==
  <<"-">>

\* the inbound bodies: every optional field absent or with one of its values
Choices ==
  [environment             : {Missing, Str_dev},
   cloud_provider          : {Missing, Str_gcp, Str_aws},
   datawarehouse_type      : {Missing, <<>>, Str_bigquery, Str_snowflake},
   service_account         : {Missing, Str_account},
   data_warehouse_platform : {Missing, <<>>, Str_bigquery}]

RequestBody(choice) ==
  [k \in {f \in DOMAIN choice : choice[f] # Missing} |-> choice[k]]

InitRequest ==
  /\ InitHandlers
  /\ files = <<>>
  /\ releases = <<>>
  /\ connections = <<>>
  /\ pvcs = {}
  /\ \E choice \in Choices :
       fn = [NoFn EXCEPT !.request = RequestBody(choice)]

\* bp.input(DeploymentCreateSchema): the body is validated
CallSchemaLoad ==
  /\ FnCall("load")
  /\ fn' = [fn EXCEPT !.called = @ \cup {"load"},
                      !.loaded = SchemaLoad(fn.request),
                      !.written = ValidatorWrites(fn.request)]

\* render_values_file({**json_data, ...}) builds its context
CallRenderContext ==
  /\ FnCall("render")
  /\ "load" \in fn.called
  /\ fn' = [fn EXCEPT !.called = @ \cup {"render"},
                      !.context = RenderContext(fn.loaded)]

NextRequest ==
  \/ CallSchemaLoad
  \/ CallRenderContext

SpecRequest ==
  InitRequest /\ [][NextRequest]_vars

(***************************************************************************)
(* Properties                                                              *)
(***************************************************************************)
DeployStages ==
  <<"render", "helm repo add", "helm repo update", "helm upgrade">>

ConnCmds ==
  {"GET connection", "PATCH connection", "POST connection",
   "DELETE connection"}

StatusCmds ==
  {"helm list", "helm status"}

\* the log c holds a successful install-or-upgrade
UpgradeOk(c) ==
  \E i \in 1..Len(c) : c[i].cmd = "helm upgrade" /\ c[i].out = "ok"

\* no connection-registry call of the log c failed
RegistryOk(c) ==
  \A i \in 1..Len(c) : c[i].cmd \in ConnCmds => c[i].out # "failed"

\* the existence check of the log c found no record
FoundAbsent(c) ==
  \E i \in 1..Len(c) : c[i].cmd = "GET connection" /\ c[i].out = "404"

CanonicalName(data) ==
  k8s_resource_name(data.project_name, data.git_branch)

\* C1: in create-or-update, when the install-or-upgrade succeeded and a
\* connection call then failed with a non-404 error, the response is overall
\* "success" with airflow_connection.status = "error" and the error attached.
C1_ConnFailureNonFatal ==
  \A h \in Handlers :
    (/\ pc[h] = "done"
     /\ op[h] = "deploy"
     /\ UpgradeOk(calls[h])
     /\ ~RegistryOk(calls[h]))
    => /\ result[h].status = "success"
       /\ result[h].conn_status = "error"
       /\ result[h].conn_error # "-"

\* C2: with create-or-update requests served concurrently, the document every
\* install-or-upgrade reads is the one rendered from its own request.
C2_AppliesOwnDocument ==
  \A h \in Handlers :
    (op[h] = "deploy" /\ UpgradeOk(calls[h]))
    => local[h].applied = RenderedDoc(json_data[h])

\* C3: create-or-update runs RenderConfig, EnsureRepo, ApplyRelease,
\* ReconcileConnection in this order, and a failure of RenderConfig,
\* EnsureRepo or ApplyRelease is the last thing the request does: it ends
\* with an error result and no later command or call.
C3_StagesInOrderAndAbort ==
  \A h \in Handlers :
    op[h] = "deploy" =>
      LET c == calls[h]
      IN  /\ \A i \in 1..Len(c) :
                IF i <= Len(DeployStages)
                  THEN c[i].cmd = DeployStages[i]
                  ELSE c[i].cmd \in ConnCmds \cup StatusCmds
          /\ \A i, j \in 1..Len(c) :
                (i < j /\ c[i].cmd \in StatusCmds) => c[j].cmd \in StatusCmds
          /\ \A i \in 1..Len(c) :
                (c[i].cmd \in Range(DeployStages) /\ c[i].out # "ok")
                => /\ i = Len(c)
                   /\ pc[h] = "done"
                   /\ result[h].status = "error"
                   /\ result[h].code = 500

C3_Witness ==
  \E h \in Handlers :
    /\ op[h] = "deploy"
    /\ pc[h] = "done"
    /\ Len(calls[h]) = Len(DeployStages)
    /\ calls[h][Len(DeployStages)].out = "failed"
    /\ result[h].status = "error"

\* C4: a delete request whose name is absent from the release listing ends
\* at once with the 404 result: the listing is the only command it issues.
C4_NotFoundNoSideEffects ==
  \A h \in Handlers :
    (/\ op[h] = "delete"
     /\ calls[h] # <<>>
     /\ calls[h][1].out \in {"absent", "failed"})
    => /\ pc[h] = "done"
       /\ result[h].code = 404
       /\ Len(calls[h]) = 1

C4_Witness ==
  \E h \in Handlers :
    /\ op[h] = "delete"
    /\ pc[h] = "done"
    /\ result[h].code = 404
    /\ calls[h] = <<[cmd |-> "helm list", out |-> "absent"]>>

\* two create-or-update requests with the same body, one right after the
\* other, both with a successful install-or-upgrade; h serves the second
TwiceInSequence(h) ==
  /\ pc[h] = "done"
  /\ op[h] = "deploy"
  /\ before[h].op = "deploy"
  /\ before[h].data = json_data[h]
  /\ UpgradeOk(before[h].calls)
  /\ UpgradeOk(calls[h])

\* C5 (as stated): create-or-update invoked twice in sequence with an
\* identical request, both applies succeeding, gives connection status
\* "created" on the first call and "updated" on the second, both for the same
\* release name.
C5_CreatedThenUpdated ==
  \A h \in Handlers :
    TwiceInSequence(h)
    => /\ before[h].result.conn_status = "created"
       /\ result[h].conn_status = "updated"
       /\ before[h].result.release_name = result[h].release_name

\* C5 (amended): the same, when no connection record of that name existed
\* before the first call and no connection-registry call of the two requests
\* failed; the one release name is the canonical name of the request and the
\* release is in the store under it.
C5_CreatedThenUpdatedWhenRegistryAnswers ==
  \A h \in Handlers :
    (/\ TwiceInSequence(h)
     /\ FoundAbsent(before[h].calls)
     /\ RegistryOk(before[h].calls)
     /\ RegistryOk(calls[h]))
    => /\ before[h].result.conn_status = "created"
       /\ result[h].conn_status = "updated"
       /\ before[h].result.release_name = result[h].release_name
       /\ result[h].release_name = CanonicalName(json_data[h])
       /\ <<result[h].release_name, json_data[h].namespace>>
            \in DOMAIN releases

C5_Witness ==
  \E h \in Handlers :
    /\ TwiceInSequence(h)
    /\ FoundAbsent(before[h].calls)
    /\ RegistryOk(before[h].calls)
    /\ RegistryOk(calls[h])
    /\ result[h].status = "success"

\* C6: in every handler that creates or updates a connection record, the
\* connection identifier, the release name and the name in the host label
\* dbt-server-<name> are the canonical resource name of the request.
C6_OneNameEverywhere ==
  \A h \in Handlers :
    local[h].sent # NoSent =>
      LET name == CanonicalName(json_data[h])
      IN  /\ local[h].sent.id = name
          /\ local[h].sent.host.label = Str_dbt_server \o <<"-">> \o name
          /\ op[h] = "deploy" => local[h].release_name = name

\* C7: k8s_resource_name gives the same output on a repeated call, and the
\* output is never longer than 63 characters.
C7_DeterministicAndShort ==
  /\ "name" \in fn.called => Len(fn.name) <= 63
  /\ "again" \in fn.called => Len(fn.again) <= 63
  /\ {"name", "again"} \subseteq fn.called => fn.name = fn.again

C7_Witness ==
  /\ {"name", "again"} \subseteq fn.called
  /\ Len(sanitize_k8s_name(fn.project)) > 63 - 14
  /\ Len(fn.name) = 62

\* C8: the connection identifier of (projectName, branch) is the resource
\* name of (projectName, branch), also for an absent or empty branch.
C8_ConnectionIdIsResourceName ==
  {"name", "conn"} \subseteq fn.called => fn.conn = fn.name

C8_Witness ==
  /\ {"name", "conn"} \subseteq fn.called
  /\ ~Truthy(fn.branch)
  /\ fn.conn # <<>>

C10_ListsEveryRelease ==
  \A h \in Handlers :
    (op[h] = "list" /\ pc[h] = "done" /\ result[h].code = 200)
    => \A key \in DOMAIN releases : key[1] \in result[h].deployments

\* C11: in the delete workflow a failed release uninstall is the last thing
\* the request does: it ends with the 500 error result, and no volume
\* listing, volume deletion, connection check or connection deletion follows.
C11_UninstallFailureAborts ==
  \A h \in Handlers :
    op[h] = "delete" =>
      \A i \in 1..Len(calls[h]) :
        (calls[h][i].cmd = "helm uninstall" /\ calls[h][i].out # "ok")
        => /\ i = Len(calls[h])
           /\ pc[h] = "done"
           /\ result[h].status = "error"
           /\ result[h].code = 500
           /\ result[h].pvc_deleted = <<>>

C11_Witness ==
  \E h \in Handlers :
    /\ op[h] = "delete"
    /\ pc[h] = "done"
    /\ calls[h] = <<[cmd |-> "helm list", out |-> "ok"],
                    [cmd |-> "helm uninstall", out |-> "failed"]>>
    /\ result[h].message = "Failed to delete deployment"

\* the log c holds a successful uninstall
UninstallOk(c) ==
  \E i \in 1..Len(c) : c[i].cmd = "helm uninstall" /\ c[i].out = "ok"

\* the volume claims the log c tried to delete, and those it deleted
PvcAttempted(c) ==
  {c[i].arg : i \in {k \in 1..Len(c) : c[k].cmd = "kubectl delete pvc"}}

PvcRemoved(c) ==
  {c[i].arg : i \in {k \in 1..Len(c) : /\ c[k].cmd = "kubectl delete pvc"
                                       /\ c[k].out = "ok"}}

PvcListFailed(c) ==
  \E i \in 1..Len(c) : c[i].cmd = "kubectl get pvc" /\ c[i].out = "failed"

Answered(c, cmd, out) ==
  \E i \in 1..Len(c) : c[i].cmd = cmd /\ c[i].out = out

\* C13: a delete request whose uninstall succeeded ends with overall success
\* whatever the connection calls did; a failed existence check or deletion
\* is reported as airflow_connection.status 'error' with its message; a 404
\* on the check gives 'not_found' and a 404 on the deletion 'deleted', both
\* without an error.
C13_ConnectionDeletionNonFatal ==
  \A h \in Handlers :
    (op[h] = "delete" /\ pc[h] = "done" /\ UninstallOk(calls[h])) =>
      LET c == calls[h]
      IN  /\ result[h].status = "success"
          /\ result[h].code = 200
          /\ ~RegistryOk(c)
               => /\ result[h].conn_status = "error"
                  /\ result[h].conn_error # "-"
          /\ Answered(c, "GET connection", "404")
               => /\ result[h].conn_status = "not_found"
                  /\ result[h].conn_error = "-"
          /\ (\/ Answered(c, "DELETE connection", "404")
              \/ Answered(c, "DELETE connection", "ok"))
               => /\ result[h].conn_status = "deleted"
                  /\ result[h].conn_error = "-"
                  /\ local[h].k8s_name \notin DOMAIN connections

\* the record was there at the check and the deletion failed
C13_Witness ==
  \E h \in Handlers :
    /\ op[h] = "delete"
    /\ pc[h] = "done"
    /\ Answered(calls[h], "GET connection", "ok")
    /\ Answered(calls[h], "DELETE connection", "failed")
    /\ result[h].status = "success"
    /\ result[h].conn_status = "error"

\* C14: a POST handler of the deployments routes answers with a success code
\* only after the install-or-upgrade of its request succeeded, the release
\* is then in the store, and the connection status of the response is one of
\* created, updated, error.
C14_SuccessOnlyAfterApply ==
  \A h \in Handlers :
    (/\ pc[h] = "done"
     /\ op[h] \in {"deploy", "create"}
     /\ result[h].code \in {200, 201})
    => /\ UpgradeOk(calls[h])
       /\ result[h].conn_status \in {"created", "updated", "error"}

\* C15: the release status of a create-or-update response is "not found"
\* when the release was absent from the listing, "unknown" when it was listed
\* and the status command failed, and the tool's status text otherwise, so
\* that the absent case and the tool-error case never give the same value.
C15_StatusOutcomesDistinct ==
  \A h \in Handlers :
    (op[h] = "deploy" /\ pc[h] = "done" /\ result[h].status = "success") =>
      LET c == calls[h]
      IN  /\ Answered(c, "helm list", "absent")
               => result[h].helm_status = "not found"
          /\ Answered(c, "helm status", "failed")
               => result[h].helm_status = "unknown"
          /\ Answered(c, "helm status", "ok")
               => result[h].helm_status \notin {"not found", "unknown"}

\* C16: the path the rendered document is written to is a function of the
\* canonical resource name: requests with the same canonical name get the
\* same path, requests with different canonical names different paths.
C16_PathFollowsCanonicalName ==
  \A h, g \in Handlers :
    (/\ Answered(calls[h], "render", "ok")
     /\ Answered(calls[g], "render", "ok"))
    => (local[h].values_file = local[g].values_file
        <=> CanonicalName(json_data[h]) = CanonicalName(json_data[g]))

\* C17: when exactly one of data_warehouse_platform and datawarehouse_type
\* is non-empty in the inbound body, the validated data, and the render
\* context built from it, carry that value in both fields.
C17_WarehouseFieldsConsistent ==
  LET type     == Get(fn.request, "datawarehouse_type", <<>>)
      platform == Get(fn.request, "data_warehouse_platform", <<>>)
      value    == IF type # <<>> THEN type ELSE platform
  IN  ((type = <<>>) # (platform = <<>>)) =>
        /\ "load" \in fn.called
             => /\ fn.loaded["datawarehouse_type"] = value
                /\ fn.loaded["data_warehouse_platform"] = value
        /\ "render" \in fn.called
             => /\ fn.context["datawarehouse_type"] = value
                /\ fn.context["data_warehouse_platform"] = value

\* C18: the render context carries the request's value for every attribute
\* the request has, cloud provider and service account included, and the
\* documented default for an attribute the request lacks.
C18_ContextCoversRequest ==
  "render" \in fn.called =>
    \A k \in DOMAIN load_default :
      fn.context[k] = IF k \in DOMAIN fn.request THEN fn.request[k]
                      ELSE load_default[k]

\* the connection call cmd of the log c was answered with success
Written(c) ==
  \/ Answered(c, "PATCH connection", "ok")
  \/ Answered(c, "POST connection", "ok")

\* C19: the host create-or-update sends to the connection registry, and the
\* host of the record once the call succeeded, is
\* https://dbt-server-<name>.<customer>.<domain>/invocations when the HTTPS
\* flag of the request is set and
\* http://dbt-server-<name>.<namespace>.svc.cluster.local/invocations when
\* it is not, with <name> the canonical resource name and <namespace> the
\* namespace the release of that name was applied to.
C19_HostPattern ==
  \A h \in Handlers :
    (op[h] = "deploy" /\ local[h].sent # NoSent) =>
      LET data == json_data[h]
          host == local[h].sent.host
      IN  /\ host.label = Str_dbt_server \o <<"-">> \o CanonicalName(data)
          /\ host.path = "/invocations"
          /\ data.https_enabled
               => /\ host.scheme = "https"
                  /\ host.zone = <<data.customer, data.domain>>
          /\ ~data.https_enabled
               => /\ host.scheme = "http"
                  /\ Len(host.zone) = 4
                  /\ SubSeq(host.zone, 2, 4) = <<"svc", "cluster", "local">>
                  /\ <<CanonicalName(data), host.zone[1]>>
                       \in DOMAIN releases
          /\ Written(calls[h])
               => connections[local[h].sent.id].host = host

\* a request with the HTTPS flag has registered its record
C19_Witness ==
  \E h \in Handlers :
    /\ op[h] = "deploy"
    /\ pc[h] = "done"
    /\ json_data[h].https_enabled
    /\ result[h].status = "success"
    /\ Written(calls[h])
    /\ connections[local[h].sent.id].host.scheme = "https"

\* C20: the liveness probe answers 200 and runs no command; the readiness
\* and startup probes answer 200 with checks.helm = "ok" when the helm
\* connectivity check succeeded and only then, and otherwise 503 with the
\* error text in checks.helm.
C20_ProbeAnswers ==
  \A h \in Handlers :
    (op[h] \in Probes /\ pc[h] = "done") =>
      IF op[h] = "liveness"
        THEN /\ result[h].code = 200
             /\ calls[h] = <<>>
        ELSE /\ Len(calls[h]) = 1
             /\ calls[h][1].cmd = "helm list"
             /\ result[h].code \in {200, 503}
             /\ result[h].code = 200 <=> calls[h][1].out = "ok"
             /\ result[h].code = 200 => result[h].checks = "ok"
             /\ result[h].code = 503 => result[h].checks \notin {"ok", "-"}

\* the tool is down: readiness answered 503 while liveness answers 200
C20_Witness ==
  \E h, g \in Handlers :
    /\ op[h] = "readiness"
    /\ pc[h] = "done"
    /\ calls[h][1].out = "failed"
    /\ result[h].code = 503
    /\ result[h].status = "not_ready"
    /\ op[g] = "liveness"
    /\ pc[g] = "done"
    /\ result[g].code = 200

Str_FastbiDemo ==
  <<"F","a","s","t","b","i"," ","D","e","m","o","!">>

Str_dbt_fastbi_demo ==
  <<"d","b","t","-","f","a","s","t","b","i","-","d","e","m","o","-">>

\* C21: for a project name whose sanitized form has at most 49 characters
\* the derived name is "dbt-", the sanitized form, "-" and 8 lowercase hex
\* characters; for "Fastbi Demo!" it is "dbt-fastbi-demo-" and the 8 hex
\* characters.
C21_NamePattern ==
  "name" \in fn.called =>
    LET base == sanitize_k8s_name(fn.project)
        head == Str_dbt \o <<"-">> \o base \o <<"-">>
    IN  /\ Len(base) <= 49
             => /\ Len(fn.name) = Len(head) + 8
                /\ SubSeq(fn.name, 1, Len(head)) = head
                /\ \A i \in Len(head) + 1 .. Len(fn.name) :
                      fn.name[i] \in Range(HexDigits)
        /\ fn.project = Str_FastbiDemo
             => /\ Len(fn.name) = Len(Str_dbt_fastbi_demo) + 8
                /\ StartsWith(fn.name, Str_dbt_fastbi_demo)
                /\ Len(fn.name) <= 63

C21_Witness ==
  /\ "name" \in fn.called
  /\ fn.project = Str_FastbiDemo
  /\ fn.branch = <<"m","a","i","n">>
  /\ StartsWith(fn.name, Str_dbt_fastbi_demo)

\* the string the digest of k8s_resource_name is taken of
DigestKey(project_name, git_branch) ==
  IF Truthy(git_branch)
    THEN sanitize_k8s_name(project_name) \o <<"-">> \o git_branch
    ELSE sanitize_k8s_name(project_name)

\* C22: two (sanitized project name, branch) pairs that differ in either
\* component have different resource names, provided the digest gives
\* different keys different values; also when the sanitized project name is
\* longer than 49 characters and is truncated.
C22_CollisionFree ==
  LET key1 == DigestKey(fn.project, fn.branch)
      key2 == DigestKey(fn.project2, fn.branch2)
  IN  (/\ {"name", "name2"} \subseteq fn.called
       /\ <<fn.project, fn.branch>> # <<fn.project2, fn.branch2>>
       /\ key1 # key2 => Md5Hex8(key1) # Md5Hex8(key2))
      => fn.name # fn.name2

\* no command or call of the log c ended with an error
NothingFailed(c) ==
  \A i \in 1..Len(c) : c[i].out # "failed"

\* C23: a DELETE for the release_name a successful create-or-update has
\* just returned (no request in between), in whatever namespace that request
\* named, finds the release, uninstalls it and ends with success and not
\* with not-found, when no command of the delete request fails.
C23_CreatedCanBeDeleted ==
  \A h \in Handlers :
    (/\ op[h] = "delete"
     /\ pc[h] = "done"
     /\ before[h].op = "deploy"
     /\ before[h].result.status = "success"
     /\ local[h].k8s_name = before[h].result.release_name
     /\ NothingFailed(calls[h]))
    => /\ result[h].code # 404
       /\ result[h].status = "success"
       /\ UninstallOk(calls[h])
       /\ <<before[h].result.release_name, before[h].data.namespace>>
            \notin DOMAIN releases

\* C24: a delete request ends with the 404 not-found result only when the
\* release is absent from the release tool's store: a failing listing
\* command does not make an installed release "not found".
C24_NotFoundOnlyWhenAbsent ==
  \A h \in Handlers :
    (op[h] = "delete" /\ pc[h] = "done" /\ result[h].code = 404)
    => <<local[h].k8s_name, DeleteNamespace>> \notin DOMAIN releases

\* h has served a create-or-update that repeats, right after it, a request
\* that ended with an error
RerunAfterFailure(h) ==
  /\ op[h] = "deploy"
  /\ pc[h] = "done"
  /\ before[h].op = "deploy"
  /\ before[h].data = json_data[h]
  /\ before[h].result.status = "error"

\* C25: when a create-or-update that failed at any stage is invoked again
\* with the same request and no command or call fails this time, it ends
\* with success, the release is applied under the canonical name of the
\* request, and the connection registry holds under that name the record
\* with the endpoint and the credentials of the request.
C25_RerunnableAfterFailure ==
  \A h \in Handlers :
    (RerunAfterFailure(h) /\ NothingFailed(calls[h])) =>
      LET name == CanonicalName(json_data[h])
      IN  /\ result[h].status = "success"
          /\ result[h].release_name = name
          /\ <<name, json_data[h].namespace>> \in DOMAIN releases
          /\ releases[<<name, json_data[h].namespace>>]
               = RenderedDoc(json_data[h])
          /\ name \in DOMAIN connections
          /\ connections[name] = RegisteredRecord(json_data[h])
          /\ result[h].conn_status \in {"created", "updated"}

\* the first attempt had applied the release and failed at the connection
\* sync; the second attempt created the record
C25_Witness ==
  \E h \in Handlers :
    /\ RerunAfterFailure(h)
    /\ NothingFailed(calls[h])
    /\ UpgradeOk(before[h].calls)
    /\ ~RegistryOk(before[h].calls)
    /\ result[h].status = "success"
    /\ result[h].conn_status = "created"

IsMutating(call) ==
  call.cmd \in {"PATCH connection", "POST connection"}

\* the calls of the log c that change the connection registry
Mutating(c) ==
  SelectSeq(c, IsMutating)

Issued(c, cmd) ==
  \E i \in 1..Len(c) : c[i].cmd = cmd

\* two concurrent create-or-update requests for the same derived name have
\* both seen the record as absent and both issued the create call
DuplicateCreate(h, g) ==
  /\ h # g
  /\ op[h] = "deploy"
  /\ op[g] = "deploy"
  /\ local[h].airflow_id = local[g].airflow_id
  /\ FoundAbsent(calls[h])
  /\ FoundAbsent(calls[g])
  /\ Issued(calls[h], "POST connection")
  /\ Issued(calls[g], "POST connection")

\* C27: nothing in the handler orders the existence check of one request
\* and the create of another: two concurrent requests for the same name can
\* both see the record as absent and both issue the create (the state of
\* C27_Witness); the registry then accepts one of the two creates at most,
\* and the request whose create it refused ends with the error result.
C27_DuplicateCreateAttempt ==
  \A h, g \in Handlers :
    DuplicateCreate(h, g) =>
      /\ ~(/\ Answered(calls[h], "POST connection", "ok")
           /\ Answered(calls[g], "POST connection", "ok"))
      /\ Answered(calls[g], "POST connection", "failed")
           => /\ pc[g] = "done"
              /\ result[g].status = "error"

C27_Witness ==
  \E h, g \in Handlers :
    /\ DuplicateCreate(h, g)
    /\ Answered(calls[h], "POST connection", "ok")
    /\ Answered(calls[g], "POST connection", "failed")
    /\ local[h].airflow_id \in DOMAIN connections

\* how often the log c holds the command cmd
Count(c, cmd) ==
  Cardinality({i \in 1..Len(c) : c[i].cmd = cmd})

\* how often the log c holds the deletion of the volume claim pvc
CountPvc(c, pvc) ==
  Cardinality({i \in 1..Len(c) : /\ c[i].cmd = "kubectl delete pvc"
                                 /\ c[i].arg = pvc})

\* C28: nothing is retried. One create-or-update request runs helm repo
\* add, helm repo update and helm upgrade at most once each; one delete
\* request runs helm uninstall at most once and the deletion of any volume
\* claim at most once; whatever the commands and calls return.
C28_NoRetry ==
  \A h \in Handlers :
    /\ op[h] = "deploy"
         => /\ Count(calls[h], "helm repo add") <= 1
            /\ Count(calls[h], "helm repo update") <= 1
            /\ Count(calls[h], "helm upgrade") <= 1
    /\ op[h] = "delete"
         => /\ Count(calls[h], "helm uninstall") <= 1
            /\ \A pvc \in PvcAttempted(calls[h]) :
                 CountPvc(calls[h], pvc) = 1

\* a delete request is over; the one deletion of a volume claim failed
C28_Witness ==
  \E h \in Handlers :
    /\ op[h] = "delete"
    /\ pc[h] = "done"
    /\ Count(calls[h], "helm uninstall") = 1
    /\ Count(calls[h], "kubectl delete pvc") = 1
    /\ Answered(calls[h], "kubectl delete pvc", "failed")
    /\ result[h].pvc_deleted = <<>>

\* the commands and calls of the log c
Cmds(c) ==
  {c[i].cmd : i \in 1..Len(c)}

\* C29: nothing is rolled back and the two workflows make disjoint changes.
\* A create-or-update issues no release uninstall, no volume deletion and
\* no connection deletion, so that a release applied before a failed
\* connection call is still applied when the request ends; a delete issues
\* no render, no install-or-upgrade and no connection create or update.
C29_NoRollbackDisjointMutations ==
  \A h \in Handlers :
    /\ op[h] = "deploy"
         => /\ Cmds(calls[h]) \cap {"helm uninstall", "kubectl delete pvc",
                                     "DELETE connection"} = {}
            /\ (UpgradeOk(calls[h]) /\ ~RegistryOk(calls[h]))
                 => /\ <<local[h].release_name, json_data[h].namespace>>
                         \in DOMAIN releases
                    /\ releases[<<local[h].release_name,
                                  json_data[h].namespace>>] = local[h].applied
    /\ op[h] = "delete"
         => Cmds(calls[h]) \cap {"render", "helm upgrade", "PATCH connection",
                                 "POST connection"} = {}

\* the release was applied, the create of the record failed: the request
\* is over and the release is in the store
C29_Witness ==
  \E h \in Handlers :
    /\ op[h] = "deploy"
    /\ pc[h] = "done"
    /\ UpgradeOk(calls[h])
    /\ Answered(calls[h], "POST connection", "failed")
    /\ result[h].status = "error"
    /\ <<local[h].release_name, json_data[h].namespace>> \in DOMAIN releases

\* C30: whatever volume claims the namespace holds, a delete request passes
\* to kubectl delete only listed claims whose name starts with
\* dbt-server-<name>-dbt-server-<name>-, <name> being the release it
\* deletes; every other listed claim is still there when the request ends.
C30_DeletesOnlyPrefixed ==
  \A h \in Handlers :
    op[h] = "delete" =>
      LET name   == local[h].k8s_name
          prefix == Str_dbt_server \o <<"-">> \o name \o <<"-">>
                    \o Str_dbt_server \o <<"-">> \o name \o <<"-">>
          listed == Range(local[h].pvc_names)
      IN  /\ \A pvc \in PvcAttempted(calls[h]) :
                pvc \in listed /\ StartsWith(pvc, prefix)
          /\ \A pvc \in listed : ~StartsWith(pvc, prefix) => pvc \in pvcs

\* the listing held two claims of the release, a claim of another release
\* and an unrelated claim; only the first two were deleted
C30_Witness ==
  \E h \in Handlers :
    /\ op[h] = "delete"
    /\ pc[h] = "done"
    /\ Len(local[h].pvc_names) = Cardinality(PvcPool)
    /\ Len(result[h].pvc_deleted) = 2
    /\ Cardinality(pvcs) = Cardinality(PvcPool) - 2

\* s has no two consecutive c and neither starts nor ends with c
Trimmed(s, c) ==
  /\ \A i \in 1..(Len(s) - 1) : ~(s[i] = c /\ s[i + 1] = c)
  /\ s # <<>> => (s[1] # c /\ s[Len(s)] # c)

\* C31: for every input string, sanitize_k8s_name returns a string of
\* characters in [a-z0-9-] with no two consecutive hyphens and no leading or
\* trailing hyphen, and sanitising that output again returns it unchanged.
C31_SanitizedShapeAndIdempotent ==
  /\ "sanitize" \in fn.called
       => /\ Range(fn.sanitized) \subseteq K8sChars
          /\ Trimmed(fn.sanitized, "-")
  /\ "resanitize" \in fn.called => fn.resanitized = fn.sanitized

\* a mixed-case input with characters outside the set, a run of hyphens
\* and hyphens at both ends was sanitised twice and something is left of it
C31_Witness ==
  /\ "resanitize" \in fn.called
  /\ fn.value = Fill(<<"-", "A", "b", "_", "-", "9", " ", ".", "/">>, 250)
  /\ fn.sanitized # <<>>
  /\ fn.sanitized # fn.value

\* C32: for every input string of any length, sanitize_airflow_conn_id
\* returns at most 250 characters, all in [a-z0-9_], with no two consecutive
\* underscores and no leading or trailing underscore.
C32_ConnIdShape ==
  "conn_sanitize" \in fn.called
    => /\ Len(fn.conn_sanitized) <= 250
       /\ Range(fn.conn_sanitized) \subseteq ConnIdChars
       /\ Trimmed(fn.conn_sanitized, "_")

\* C33: for every (project name, branch), the derived resource name is a
\* valid cluster resource label: characters in [a-z0-9-] only, first and
\* last character alphanumeric, 1 to 63 characters long; this includes a
\* project name that sanitises to the empty string and one whose sanitised
\* form is cut at 49 characters.
C33_NameIsValidLabel ==
  "name" \in fn.called
    => /\ Range(fn.name) \subseteq K8sChars
       /\ Len(fn.name) >= 1
       /\ Len(fn.name) <= 63
       /\ fn.name[1] # "-"
       /\ fn.name[Len(fn.name)] # "-"

\* the name was derived from a project name longer than 49 characters
\* after sanitising, so that the base was cut
C33_Witness ==
  /\ "name" \in fn.called
  /\ Len(sanitize_k8s_name(fn.project)) > 63 - 14
  /\ Len(fn.name) = 62

\* the name was derived from a project name that sanitises to nothing
C33_WitnessEmpty ==
  /\ "name" \in fn.called
  /\ fn.project # <<>>
  /\ sanitize_k8s_name(fn.project) = <<>>
  /\ Len(fn.name) = 13

\* C34: two create-or-update requests with the same inbound body, both
\* answered with success, apply the same configuration document to the
\* release and send the same login and password to the connection registry,
\* also when the body has no basic-auth user or no password.
C34_SameBodySameEffect ==
  \A h \in Handlers :
    ( /\ op[h] = "deploy" /\ pc[h] = "done" /\ result[h].code = 200
      /\ before[h].op = "deploy" /\ before[h].result.code = 200
      /\ before[h].body = local[h].body )
    => /\ local[h].applied = before[h].applied
       /\ local[h].sent.login = before[h].sent.login
       /\ local[h].sent.password = before[h].sent.password

\* C35: when a create-or-update request has returned success, the login and
\* password of the connection record of the deployment are the basic-auth
\* user and password of the configuration document that request applied to
\* the release.
C35_RecordMatchesAppliedDocument ==
  \A h \in Handlers :
    ( /\ op[h] = "deploy" /\ pc[h] = "done" /\ result[h].code = 200
      /\ local[h].airflow_id \in DOMAIN connections )
    => /\ connections[local[h].airflow_id].login = local[h].applied.login
       /\ connections[local[h].airflow_id].password
            = local[h].applied.password

\* C36: in every success result of a delete request the connection status
\* is one of deleted, not_found, error; the connection error is set exactly
\* when the status is error; and with status deleted or not_found, once the
\* request has finished, the connection record of that name is not in the
\* registry and the release of that name is not in namespace dbt-server,
\* the namespace the result names.
C36_DeleteResultTellsTheOutcome ==
  \A h \in Handlers :
    (op[h] = "delete" /\ pc[h] = "done" /\ result[h].status = "success") =>
      /\ result[h].conn_status \in {"deleted", "not_found", "error"}
      /\ (result[h].conn_error # "-") <=> (result[h].conn_status = "error")
      /\ result[h].conn_status \in {"deleted", "not_found"}
           => /\ result[h].conn_id \notin DOMAIN connections
              /\ <<result[h].release_name, DeleteNamespace>>
                   \notin DOMAIN releases

\* the record was found and deleted, and the release is gone
C36_Witness ==
  \E h \in Handlers :
    /\ op[h] = "delete"
    /\ pc[h] = "done"
    /\ result[h].status = "success"
    /\ result[h].conn_status = "deleted"
    /\ Answered(calls[h], "DELETE connection", "ok")
    /\ releases = <<>>
    /\ connections = <<>>

\* the result of handler h is one of the terminal results of its route
Terminal(h) ==
  \/ result[h].status = "success" /\ result[h].code = 200
  \/ result[h].status = "error" /\ result[h].code = 500
  \/ op[h] = "delete" /\ result[h].status = "error" /\ result[h].code = 404

\* C37: with every external call returning or raising, every create-or-update
\* request and every delete request eventually returns; it returns one
\* terminal result (success, error, or not-found for a delete), has none
\* before, and keeps it; and its external calls come one after another,
\* each added to the end of the calls made so far.
C37_EveryRequestReturnsOnce ==
  /\ \A h \in Handlers : (pc[h] \notin {"idle", "done"}) ~> (pc[h] = "done")
  /\ [](\A h \in Handlers :
          IF pc[h] = "done" THEN Terminal(h) ELSE result[h] = NoResult)
  /\ [][\A h \in Handlers :
          /\ (pc[h] = "done" /\ pc'[h] = "done") => result'[h] = result[h]
          /\ (pc[h] # "idle" /\ pc'[h] # "idle")
               => /\ Len(calls'[h]) >= Len(calls[h])
                  /\ SubSeq(calls'[h], 1, Len(calls[h])) = calls[h]]_vars

\* a delete request went through the uninstall, the volume claims and the
\* registry and returned success
C37_Witness ==
  \E h \in Handlers :
    /\ op[h] = "delete"
    /\ pc[h] = "done"
    /\ result[h].status = "success"
    /\ Len(local[h].pvc_names) = 2
    /\ Len(calls[h]) >= 5

====
